---- MODULE Spec2Model ----
(***************************************************************************)
(* A model of the command-line resolution and routing engine of            *)
(* @truyman/cli: Command.run / runParent / runLeaf, the option and         *)
(* positional extraction, and the mri tokenizer call they rest on.         *)
(*                                                                         *)
(* One behaviour is one invocation  root.run(argv)  of one command tree.   *)
(***************************************************************************)
EXTENDS Integers, Sequences, FiniteSets, TLC

(***************************************************************************)
(* JavaScript values.  Every value is a record of one shape so that any    *)
(* two values can be compared:  t  is the typeof tag ("array" for arrays), *)
(* s the text of a string, n the number (1/0 for true/false), a the        *)
(* elements of an array.                                                   *)
(***************************************************************************)
Undefined == [t |-> "undefined", s |-> "", n |-> 0, a |-> <<>>]
Str(s) == [t |-> "string", s |-> s, n |-> 0, a |-> <<>>]
Num(n) == [t |-> "number", s |-> "", n |-> n, a |-> <<>>]
NaN == [t |-> "number", s |-> "NaN", n |-> 0, a |-> <<>>]
Bool(b) == [t |-> "boolean", s |-> "", n |-> IF b THEN 1 ELSE 0, a |-> <<>>]
Arr(seq) == [t |-> "array", s |-> "", n |-> 0, a |-> seq]

isNaN(v) == v = NaN

\* The numerals of the model: <<text, value>>.  The first numeral of a value
\* is the text String(value) prints.
Numerals ==
  << <<"0", 0>>, <<"7", 7>>, <<"07", 7>>, <<"8080", 8080>>, <<"3000", 3000>>, <<"", 0>> >>

IsNumeral(s) == \E i \in 1..Len(Numerals) : Numerals[i][1] = s

ValueOfNumeral(s) == Numerals[CHOOSE i \in 1..Len(Numerals) : Numerals[i][1] = s][2]

TextOfNumber(n) ==
  LET first == CHOOSE i \in 1..Len(Numerals) :
                 /\ Numerals[i][2] = n
                 /\ \A j \in 1..(i - 1) : Numerals[j][2] # n
  IN  Numerals[first][1]

RECURSIVE Join(_)
\* Array.prototype.join(",") of texts
Join(texts) ==
  IF Len(texts) = 0 THEN ""
  ELSE IF Len(texts) = 1 THEN texts[1]
  ELSE texts[1] \o "," \o Join(Tail(texts))

\* String(value), for the values the engine converts
ScalarToString(v) ==
  CASE v.t = "string" -> v.s
    [] v.t = "number" -> IF isNaN(v) THEN "NaN" ELSE TextOfNumber(v.n)
    [] v.t = "boolean" -> IF v.n = 1 THEN "true" ELSE "false"
    [] OTHER -> "undefined"

String(v) ==
  IF v.t = "array"
  THEN Join([i \in 1..Len(v.a) |-> ScalarToString(v.a[i])])
  ELSE ScalarToString(v)

\* Number(value): the numeric parse of a text, NaN when it is no numeral
TextToNumber(s) == IF IsNumeral(s) THEN Num(ValueOfNumeral(s)) ELSE NaN

Number(v) ==
  CASE v.t = "string" -> TextToNumber(v.s)
    [] v.t = "number" -> v
    [] v.t = "boolean" -> Num(v.n)
    [] v.t = "array" -> TextToNumber(String(v))
    [] OTHER -> NaN

(***************************************************************************)
(* JavaScript objects used as maps (Record<string, unknown>, the mri       *)
(* result): a sequence of <<key, value>> in insertion order.               *)
(***************************************************************************)
HasKey(obj, key) == \E i \in 1..Len(obj) : obj[i][1] = key

Get(obj, key) ==
  IF HasKey(obj, key)
  THEN obj[CHOOSE i \in 1..Len(obj) : obj[i][1] = key][2]
  ELSE Undefined

Put(obj, key, value) ==
  IF HasKey(obj, key)
  THEN [i \in 1..Len(obj) |-> IF obj[i][1] = key THEN <<key, value>> ELSE obj[i]]
  ELSE Append(obj, <<key, value>>)

RECURSIVE Spread(_, _)
\* { ...a, ...b }
Spread(a, b) ==
  IF Len(b) = 0 THEN a ELSE Spread(Put(a, b[1][1], b[1][2]), Tail(b))

Keys(obj) == [i \in 1..Len(obj) |-> obj[i][1]]

Range(seq) == {seq[i] : i \in 1..Len(seq)}

(***************************************************************************)
(* Command-line tokens.  argv is a sequence of values: the strings the     *)
(* caller passes and, on the way down the tree, whatever reconstructArgv   *)
(* forwards.  A token is read the way mri reads it: its leading dashes,    *)
(* a "no-" prefix, the flag name (mri treats --x and -x alike for a        *)
(* one-character name; grouped short flags, "=" and "--" are not among the *)
(* tokens of the model).                                                   *)
(***************************************************************************)
\* every flag name of the model's command trees, and one no tree declares
FlagNames ==
  {"opt", "o", "foo", "bar", "b", "verbose", "v", "force", "f", "debug",
   "service", "s", "tail", "n", "level", "config", "loud", "zz", "tag",
   "help", "h", "version", "V"}

Lex(arg) ==
  LET text == IF arg.t = "string" THEN arg.s ELSE ""
  IN  IF \E x \in FlagNames : text = "--no-" \o x
      THEN [flag |-> TRUE, neg |-> TRUE,
            name |-> CHOOSE x \in FlagNames : text = "--no-" \o x]
      ELSE IF \E x \in FlagNames : text = "--" \o x \/ text = "-" \o x
      THEN [flag |-> TRUE, neg |-> FALSE,
            name |-> CHOOSE x \in FlagNames : text = "--" \o x \/ text = "-" \o x]
      ELSE [flag |-> FALSE, neg |-> FALSE, name |-> ""]

\* mri: (x = +val, x * 0 === 0) ? x : val
mriNumeric(val) == IF isNaN(Number(val)) THEN val ELSE Number(val)

\* mri toVal(out, key, val, opts): val is true or the text of the next token
toVal(out, key, val, opts) ==
  LET pushes == /\ key \notin opts.string
                /\ val.t # "boolean"
                /\ key \in opts.boolean
                /\ val.s \notin {"true", "false"}
      nxt == IF key \in opts.string
             THEN (IF val = Bool(TRUE) THEN Str("") ELSE Str(String(val)))
             ELSE IF val.t = "boolean" THEN val
             ELSE IF key \in opts.boolean
             THEN (IF val.s = "false" THEN Bool(FALSE) ELSE Bool(TRUE))
             ELSE mriNumeric(val)
      old == Get(out.o, key)
  IN  [pos |-> IF pushes THEN Append(out.pos, mriNumeric(val)) ELSE out.pos,
       o |-> Put(out.o, key,
                 IF old = Undefined THEN nxt
                 ELSE IF old.t = "array" THEN Arr(Append(old.a, nxt))
                 ELSE Arr(<<old, nxt>>))]

RECURSIVE mriLoop(_, _, _, _)
\* mri's pass over args from index i
mriLoop(args, i, out, opts) ==
  IF i > Len(args) THEN out
  ELSE
    LET tok == Lex(args[i])
        more == i + 1 <= Len(args) /\ ~Lex(args[i + 1]).flag
    IN  IF ~tok.flag
        THEN mriLoop(args, i + 1, [out EXCEPT !.pos = Append(@, args[i])], opts)
        ELSE IF tok.neg
        THEN mriLoop(args, i + 1,
                     [out EXCEPT !.o = Put(@, tok.name, Bool(FALSE))], opts)
        ELSE IF more
        THEN mriLoop(args, i + 2, toVal(out, tok.name, args[i + 1], opts), opts)
        ELSE mriLoop(args, i + 1, toVal(out, tok.name, Bool(TRUE), opts), opts)

\* the names mri aliases to k: opts.alias made symmetric
aliasesOf(alias, k) ==
  {p[2] : p \in {q \in alias : q[1] = k}} \cup {p[1] : p \in {q \in alias : q[2] = k}}

RECURSIVE mriAliases(_, _, _)
\* mri's last loop: for (k in out) out[each alias of k] = out[k], over keys ks
mriAliases(o, ks, alias) ==
  IF Len(ks) = 0 THEN o
  ELSE
    LET as == aliasesOf(alias, ks[1])
        o2 == IF as = {} THEN o
              ELSE Put(o, CHOOSE x \in as : TRUE, Get(o, ks[1]))
    IN  mriAliases(o2, Tail(ks), alias)

\* mri's boolean and string lists, each name joined by its aliases
mriNames(names, alias) == names \cup UNION {aliasesOf(alias, k) : k \in names}

mriFinish(out, alias) == [pos |-> out.pos, o |-> mriAliases(out.o, Keys(out.o), alias)]

\* mri(argv, {boolean, string, alias}); the result's "_" is field pos
mri(args, opts) ==
  mriFinish(mriLoop(args, 1, [pos |-> <<>>, o |-> <<>>],
                    [boolean |-> mriNames(opts.boolean, opts.alias),
                     string |-> mriNames(opts.string, opts.alias)]),
            opts.alias)

(***************************************************************************)
(* Option and positional definitions.  An option table is the sequence of  *)
(* the entries of the JavaScript object, in key order; "" stands for an    *)
(* omitted long, short or env, Undefined for an omitted default.           *)
(***************************************************************************)
normalizeOptions(options) ==
  [i \in 1..Len(options) |->
     [options[i] EXCEPT !.long = IF @ = "" THEN options[i].key ELSE @]]

parseArgvWithOptions(argv, optionDefs) ==
  LET defs == Range(optionDefs)
      booleanFlags == {d.long : d \in {e \in defs : e.type = "boolean"}}
                        \cup {"no-" \o d.long :
                                d \in {e \in defs : e.type = "boolean" /\ e.negatable}}
      stringFlags == {d.long : d \in {e \in defs : e.type # "boolean"}}
      aliases == {<<d.short, d.long>> : d \in {e \in defs : e.short # ""}}
  IN  mri(argv, [boolean |-> booleanFlags, string |-> stringFlags, alias |-> aliases])

(***************************************************************************)
(* Errors.  A thrown error is a record: its class, the name it reports     *)
(* (argument name, option key or long name, subcommand token) and its      *)
(* source field, the node that raised it (0 when the constructor is given  *)
(* no source).  The subcommand errors also carry availableSubcommands and  *)
(* suggestions.  NoError is "nothing thrown".                              *)
(***************************************************************************)
NoError == [error |-> "", name |-> "", source |-> 0, available |-> <<>>, suggestions |-> <<>>]

Throw(class, name, source) ==
  [error |-> class, name |-> name, source |-> source, available |-> <<>>,
   suggestions |-> <<>>]

\* new MissingSubcommandError(name, available), new UnknownSubcommandError(name,
\* available): the suggestions default to [], no source is given
ThrowSubcommand(class, name, available) ==
  [error |-> class, name |-> name, source |-> 0, available |-> available,
   suggestions |-> <<>>]

\* handleError: error.source ?? cmd, the node whose help is shown for an error
\* thrown by a run of cmd
helpSource(error, cmd) == IF error.source # 0 THEN error.source ELSE cmd

(***************************************************************************)
(* Positional arguments: Command.extractArgs.  A result is                 *)
(* [err, values]; values are meaningful when err = NoError.                *)
(***************************************************************************)
\* the type switch with a boolean read by truthiness
coerceArgTruthy(type, value) ==
  CASE type = "number" -> Number(value)
    [] type = "boolean" -> Bool(value # Str(""))
    [] OTHER -> value

\* the type switch on one present token
coerceArg(type, value) ==
  CASE type = "number" -> Number(value)
    [] type = "boolean" -> Bool(value = Str("true"))
    [] OTHER -> value

RECURSIVE extractArgsFrom(_, _, _, _, _)
\* the loop of extractArgs from spec i (1-based), values collected so far
extractArgsFrom(args, i, pos, values, self) ==
  IF i > Len(args) THEN [err |-> NoError, values |-> values]
  ELSE
    LET arg == args[i] IN
    IF arg.variadic
    THEN
      LET remaining == SubSeq(pos, i, Len(pos))
          typed == [j \in 1..Len(remaining) |-> coerceArg(arg.type, remaining[j])]
      IN  IF ~arg.optional /\ Len(remaining) = 0
          THEN [err |-> Throw("MissingArgumentError", arg.name, self), values |-> <<>>]
          ELSE IF arg.type = "number" /\ \E j \in 1..Len(typed) : isNaN(typed[j])
          THEN [err |-> Throw("InvalidArgumentError", arg.name, self), values |-> <<>>]
          ELSE [err |-> NoError, values |-> Append(values, Arr(typed))]
    ELSE
      LET value == IF i <= Len(pos) THEN pos[i] ELSE Undefined IN
      IF value = Undefined /\ ~arg.optional
      THEN [err |-> Throw("MissingArgumentError", arg.name, self), values |-> <<>>]
      ELSE IF value = Undefined
      THEN extractArgsFrom(args, i + 1, pos, Append(values, Undefined), self)
      ELSE IF arg.type = "number" /\ isNaN(Number(value))
      THEN [err |-> Throw("InvalidArgumentError", arg.name, self), values |-> <<>>]
      ELSE extractArgsFrom(args, i + 1, pos,
                           Append(values, coerceArg(arg.type, value)), self)

extractArgs(args, parsed, self) == extractArgsFrom(args, 1, parsed.pos, <<>>, self)

(***************************************************************************)
(* Options: Command.extractOptionsFromDefs and its helpers.                *)
(***************************************************************************)
\* Number(value), or NaN where the code throws InvalidOptionError
coerceToNumber(value) == Number(value)

\* extractMultipleOptionValue without the wrapping of a single value
extractMultipleUnwrapped(value, opt) ==
  IF value = Undefined THEN Arr(<<>>)
  ELSE IF value.t # "array"
  THEN (IF opt.type = "number" THEN coerceToNumber(value) ELSE value)
  ELSE IF opt.type = "number"
  THEN Arr([i \in 1..Len(value.a) |-> coerceToNumber(value.a[i])])
  ELSE value

\* the array extractMultipleOptionValue builds; an element NaN marks the throw
extractMultipleOptionValue(value, opt) ==
  LET arr == IF value = Undefined THEN <<>>
             ELSE IF value.t = "array" THEN value.a
             ELSE <<value>>
  IN  IF opt.type = "number"
      THEN Arr([i \in 1..Len(arr) |-> coerceToNumber(arr[i])])
      ELSE Arr(arr)

extractNegatableBoolean(parsed, opt) ==
  LET negatedValue == Get(parsed.o, "no-" \o opt.long)
      value == Get(parsed.o, opt.long)
  IN  IF negatedValue = Bool(TRUE) THEN Bool(FALSE)
      ELSE IF value # Undefined THEN value
      ELSE opt.default

\* the value one pass of the loop assigns to optionValues[key]
optionValue(parsed, opt) ==
  LET value == Get(parsed.o, opt.long)
  IN  IF opt.multiple THEN extractMultipleOptionValue(value, opt)
      ELSE IF opt.type = "number"
      THEN (IF value # Undefined THEN coerceToNumber(value) ELSE opt.default)
      ELSE IF opt.type = "boolean" /\ opt.negatable
      THEN extractNegatableBoolean(parsed, opt)
      ELSE IF value # Undefined THEN value ELSE opt.default

\* coerceToNumber threw while optionValue was computed
coercionThrew(opt, v) ==
  /\ opt.type = "number"
  /\ \/ isNaN(v)
     \/ v.t = "array" /\ \E i \in 1..Len(v.a) : isNaN(v.a[i])

\* the loop without its required check
requiredUnchecked(opt, v) == FALSE

\* the required check that ends one pass of the loop
requiredMissing(opt, v) == opt.required /\ v = Undefined

RECURSIVE extractOptionsFrom(_, _, _, _, _)
\* one pass of the loop, v the value computed for entry i
extractOptionsPass(parsed, optionDefs, i, optionValues, self, v) ==
  IF coercionThrew(optionDefs[i], v) /\ Get(parsed.o, optionDefs[i].long) # Undefined
  THEN [err |-> Throw("InvalidOptionError", optionDefs[i].key, self), values |-> <<>>]
  ELSE IF requiredMissing(optionDefs[i], v)
  THEN [err |-> Throw("MissingOptionError", optionDefs[i].long, self), values |-> <<>>]
  ELSE extractOptionsFrom(parsed, optionDefs, i + 1,
                          Put(optionValues, optionDefs[i].key, v), self)

\* the loop of extractOptionsFromDefs from entry i, optionValues so far
extractOptionsFrom(parsed, optionDefs, i, optionValues, self) ==
  IF i > Len(optionDefs) THEN [err |-> NoError, values |-> optionValues]
  ELSE extractOptionsPass(parsed, optionDefs, i, optionValues, self,
                          optionValue(parsed, optionDefs[i]))

extractOptionsFromDefs(parsed, optionDefs, self) ==
  extractOptionsFrom(parsed, optionDefs, 1, <<>>, self)

(***************************************************************************)
(* Command nodes.  A definition (the object given to command()) and the    *)
(* constructed node are records; a tree is a sequence of nodes, node 1     *)
(* the root, and a node's subcommands are the indexes of its children in   *)
(* the order of the Map.                                                   *)
(***************************************************************************)
isParentOptions(opts) == opts.parent

\* a constructor that accepts any positional specs
validateArgsUnchecked(args) == TRUE

validateArgs(args) ==
  \A i \in 1..Len(args) : args[i].variadic => i = Len(args)

validateOptionConflicts(options, inherits) ==
  {o.key : o \in Range(options)} \cap {o.key : o \in Range(inherits)} = {}

\* a check of the long names alone
validateReservedLong(options) ==
  \A i \in 1..Len(options) : options[i].long \notin {"help", "version"}

validateReservedOptions(options) ==
  \A i \in 1..Len(options) :
    /\ options[i].long \notin {"help", "version"}
    /\ options[i].short \notin {"h", "V"}

\* the flag validateReservedOptions throws ReservedOptionError for, "" for none
reservedFlag(options) ==
  IF validateReservedOptions(options) THEN ""
  ELSE LET i == CHOOSE j \in 1..Len(options) :
                  /\ options[j].long \in {"help", "version"} \/ options[j].short \in {"h", "V"}
                  /\ \A k \in 1..(j - 1) :
                       /\ options[k].long \notin {"help", "version"}
                       /\ options[k].short \notin {"h", "V"}
       IN  IF options[i].long \in {"help", "version"} THEN "--" \o options[i].long
           ELSE "-" \o options[i].short

\* what new Command(cmdOptions) throws, NoError when it returns
constructorThrows(cmdOptions) ==
  LET options == normalizeOptions(cmdOptions.options)
      inherits == normalizeOptions(cmdOptions.inherits)
  IN  IF isParentOptions(cmdOptions)
      THEN (IF Len(cmdOptions.subcommands) = 0 THEN Throw("Error", "subcommands", 0)
            ELSE IF reservedFlag(options) # ""
            THEN Throw("ReservedOptionError", reservedFlag(options), 0)
            ELSE NoError)
      ELSE IF ~validateArgs(cmdOptions.args) THEN Throw("Error", "variadic", 0)
      ELSE IF ~validateOptionConflicts(options, inherits) THEN Throw("Error", "conflict", 0)
      ELSE IF reservedFlag(inherits) # ""
      THEN Throw("ReservedOptionError", reservedFlag(inherits), 0)
      ELSE IF reservedFlag(options) # ""
      THEN Throw("ReservedOptionError", reservedFlag(options), 0)
      ELSE NoError

\* new Command(cmdOptions): [ok, cmd]; ok is FALSE when the constructor throws
Command(cmdOptions) ==
  LET options == normalizeOptions(cmdOptions.options)
      inherits == normalizeOptions(cmdOptions.inherits)
  IN  IF isParentOptions(cmdOptions)
      THEN [ok |-> Len(cmdOptions.subcommands) > 0 /\ validateReservedOptions(options),
            cmd |-> [name |-> cmdOptions.name, version |-> cmdOptions.version,
                     args |-> <<>>, options |-> options,
                     inherits |-> <<>>, handler |-> FALSE, async |-> FALSE,
                     subcommands |-> cmdOptions.subcommands]]
      ELSE [ok |-> /\ validateArgs(cmdOptions.args)
                   /\ validateOptionConflicts(options, inherits)
                   /\ validateReservedOptions(inherits)
                   /\ validateReservedOptions(options),
            cmd |-> [name |-> cmdOptions.name, version |-> cmdOptions.version,
                     args |-> cmdOptions.args,
                     options |-> options, inherits |-> inherits,
                     handler |-> cmdOptions.handler, async |-> cmdOptions.async,
                     subcommands |-> <<>>]]

isParent(cmd) == Len(cmd.subcommands) > 0

\* Array.from(this.subcommands.keys())
getSubcommandNames(tree, cmd) ==
  [i \in 1..Len(cmd.subcommands) |-> tree[cmd.subcommands[i]].name]

\* this.subcommands?.get(name): the child's index, 0 for undefined
getSubcommand(tree, cmd, name) ==
  LET hits == {i \in 1..Len(cmd.subcommands) :
                 Str(tree[cmd.subcommands[i]].name) = name}
  IN  IF hits = {} THEN 0
      ELSE cmd.subcommands[CHOOSE i \in hits : \A j \in hits : j <= i]

includes(args, text) == \E i \in 1..Len(args) : args[i] = Str(text)

RECURSIVE helpScan(_, _)
\* the place of the first argument findHelpTarget looks up, 0 when there is
\* none: the help flags and every other "-" argument are passed over
helpScan(args, i) ==
  IF i > Len(args) THEN 0
  ELSE IF args[i] \in {Str("--help"), Str("-h")} \/ Lex(args[i]).flag
  THEN helpScan(args, i + 1)
  ELSE i

RECURSIVE findHelpTarget(_, _, _)
findHelpTarget(tree, cmd, args) ==
  IF ~isParent(tree[cmd]) THEN cmd
  ELSE IF helpScan(args, 1) = 0 THEN cmd
  ELSE IF getSubcommand(tree, tree[cmd], args[helpScan(args, 1)]) = 0 THEN cmd
  ELSE findHelpTarget(tree, getSubcommand(tree, tree[cmd], args[helpScan(args, 1)]),
                      Tail(args))

\* handleCompletions: what it writes
handleCompletions(args) ==
  IF Len(args) = 0 \/ args[1] \notin {Str("bash"), Str("zsh"), Str("fish")}
  THEN "usage" ELSE "completions"

\* the built-in flags looked for in their long form alone
builtinLong(args) ==
  IF Len(args) > 0 /\ args[1] = Str("completions") THEN "completions"
  ELSE IF includes(args, "--version") THEN "version"
  ELSE IF includes(args, "--help") THEN "help"
  ELSE ""

\* the branch run() takes before it calls cmd.run: "" for none
builtin(args) ==
  IF Len(args) > 0 /\ args[1] = Str("completions") THEN "completions"
  ELSE IF includes(args, "--version") \/ includes(args, "-V") THEN "version"
  ELSE IF includes(args, "--help") \/ includes(args, "-h") THEN "help"
  ELSE ""

\* the tokens reconstructArgv pushes for one entry of the mri result
forwarded(entry, options) ==
  LET key == entry[1]
      value == entry[2]
      isOwnOption ==
        \E i \in 1..Len(options) : options[i].long = key \/ options[i].short = key
  IN  IF isOwnOption THEN <<>>
      ELSE IF value = Bool(TRUE) THEN <<Str("--" \o key)>>
      ELSE IF value # Undefined /\ value # Bool(FALSE)
      THEN <<Str("--" \o key), Str(String(value))>>
      ELSE <<>>

RECURSIVE forwardedFrom(_, _, _)
forwardedFrom(entries, i, options) ==
  IF i > Len(entries) THEN <<>>
  ELSE forwarded(entries[i], options) \o forwardedFrom(entries, i + 1, options)

\* Only options NOT defined on this command are passed through
reconstructArgv(positionals, parsed, options) ==
  positionals \o forwardedFrom(parsed.o, 1, options)

RECURSIVE definedEntries(_)
\* Object.entries(obj).filter(([, v]) => v !== undefined)
definedEntries(obj) ==
  IF Len(obj) = 0 THEN <<>>
  ELSE IF obj[1][2] # Undefined THEN <<obj[1]>> \o definedEntries(Tail(obj))
  ELSE definedEntries(Tail(obj))

(***************************************************************************)
(* The suggestion engine.  A string is the sequence of its characters, each *)
(* a one-character string.                                                  *)
(***************************************************************************)
\* the lower-case letters in alphabetical order, and the capitals among them
LowerCase == <<"a", "b", "d", "e", "i", "l", "m", "o", "r", "s", "t", "v", "z">>

UpperCase == [A |-> "a", B |-> "b", D |-> "d"]

toLowerCase(str) ==
  [i \in 1..Len(str) |->
     IF str[i] \in DOMAIN UpperCase THEN UpperCase[str[i]] ELSE str[i]]

\* the place of a character's letter in the alphabet
rank(ch) ==
  LET l == IF ch \in DOMAIN UpperCase THEN UpperCase[ch] ELSE ch
  IN  CHOOSE i \in 1..Len(LowerCase) : LowerCase[i] = l

RECURSIVE compareLetters(_, _, _)
\* the order of two strings by their letters, case set aside: -1, 0 or 1
compareLetters(a, b, i) ==
  IF i > Len(a) /\ i > Len(b) THEN 0
  ELSE IF i > Len(a) THEN -1
  ELSE IF i > Len(b) THEN 1
  ELSE IF rank(a[i]) < rank(b[i]) THEN -1
  ELSE IF rank(a[i]) > rank(b[i]) THEN 1
  ELSE compareLetters(a, b, i + 1)

RECURSIVE compareCase(_, _, _)
\* the order of two strings of the same letters: at the first character that
\* differs the lower-case one comes first
compareCase(a, b, i) ==
  IF i > Len(a) THEN 0
  ELSE IF a[i] = b[i] THEN compareCase(a, b, i + 1)
  ELSE IF a[i] \in DOMAIN UpperCase THEN 1 ELSE -1

\* a.localeCompare(b): the letters decide, then the case
localeCompare(a, b) ==
  IF compareLetters(a, b, 1) # 0 THEN compareLetters(a, b, 1) ELSE compareCase(a, b, 1)

min(x, y) == IF x <= y THEN x ELSE y

RECURSIVE currentRow(_, _, _, _, _)
\* the row of character i of a, from its first j entries
currentRow(aLower, bLower, i, prevRow, row) ==
  IF Len(row) > Len(bLower) THEN row
  ELSE LET j == Len(row)
           cost == IF aLower[i] = bLower[j] THEN 0 ELSE 1
       IN  currentRow(aLower, bLower, i, prevRow,
                      Append(row, min(min(prevRow[j + 1] + 1, row[j] + 1),
                                      prevRow[j] + cost)))

RECURSIVE lastRow(_, _, _, _)
lastRow(aLower, bLower, i, prevRow) ==
  IF i > Len(aLower) THEN prevRow
  ELSE lastRow(aLower, bLower, i + 1, currentRow(aLower, bLower, i, prevRow, <<i>>))

levenshteinLower(aLower, bLower) ==
  IF aLower = bLower THEN 0
  ELSE IF Len(aLower) = 0 THEN Len(bLower)
  ELSE IF Len(bLower) = 0 THEN Len(aLower)
  ELSE lastRow(aLower, bLower, 1, [j \in 1..(Len(bLower) + 1) |-> j - 1])[Len(bLower) + 1]

\* the distance of the strings as they are written
levenshteinCased(a, b) == levenshteinLower(a, b)

levenshteinDistance(a, b) == levenshteinLower(toLowerCase(a), toLowerCase(b))

\* the threshold without the cap of 3
thresholdUncapped(input, maxDistance) ==
  IF maxDistance # Undefined THEN maxDistance.n ELSE (Len(input) * 4) \div 10 + 1

\* maxDistance ?? Math.min(3, Math.floor(input.length * 0.4) + 1)
threshold(input, maxDistance) ==
  IF maxDistance # Undefined THEN maxDistance.n
  ELSE min(3, (Len(input) * 4) \div 10 + 1)

RECURSIVE matching(_, _, _, _)
\* the candidates within the threshold that are not the input itself, each
\* with its distance, in the order of the candidates
matching(input, candidates, limit, i) ==
  IF i > Len(candidates) THEN <<>>
  ELSE LET distance == levenshteinDistance(input, candidates[i])
       IN  (IF distance <= limit /\ (distance > 0 \/ input # candidates[i])
            THEN <<[candidate |-> candidates[i], distance |-> distance]>>
            ELSE <<>>) \o matching(input, candidates, limit, i + 1)

\* a comparator by distance alone
compareDistances(a, b) == a.distance - b.distance

\* the comparator of results.sort: by distance, then by localeCompare
compareResults(a, b) ==
  IF a.distance # b.distance THEN a.distance - b.distance
  ELSE localeCompare(a.candidate, b.candidate)

RECURSIVE sorted(_)
\* results.sort(compareResults): a stable sort
sorted(results) ==
  IF Len(results) = 0 THEN <<>>
  ELSE LET rest == sorted(SubSeq(results, 1, Len(results) - 1))
           x == results[Len(results)]
           k == Cardinality({i \in 1..Len(rest) : compareResults(rest[i], x) <= 0})
       IN  SubSeq(rest, 1, k) \o <<x>> \o SubSeq(rest, k + 1, Len(rest))

findSuggestions(input, candidates, maxDistance) ==
  IF Len(input) < 2 THEN <<>>
  ELSE LET results == sorted(matching(input, candidates, threshold(input, maxDistance), 1))
       IN  [i \in 1..min(3, Len(results)) |-> results[i].candidate]

(***************************************************************************)
(* The command trees and argument vectors the model runs.                  *)
(***************************************************************************)
\* the longest argv given to the root of a tree of several commands
MaxArgv == 3

\* the longest argv given to a command that stands alone
MaxLeafArgv == 2

Opt(key, type) ==
  [key |-> key, long |-> "", short |-> "", type |-> type, multiple |-> FALSE,
   negatable |-> FALSE, required |-> FALSE, default |-> Undefined, env |-> "",
   choices |-> <<>>, validate |-> FALSE]

Arg(name, type, optional, variadic) ==
  [name |-> name, type |-> type, optional |-> optional, variadic |-> variadic,
   choices |-> <<>>, validate |-> FALSE]

Leaf(name, args, options, inherits) ==
  [name |-> name, args |-> args, options |-> options, inherits |-> inherits,
   handler |-> TRUE, subcommands |-> <<>>, parent |-> FALSE, version |-> "",
   async |-> FALSE]

Parent(name, options, subcommands) ==
  [name |-> name, args |-> <<>>, options |-> options, inherits |-> <<>>,
   handler |-> FALSE, subcommands |-> subcommands, parent |-> TRUE, version |-> "",
   async |-> FALSE]

Texts == {"7", "x", "true"}

\* a default of the option's type (a sequence for a multiple option)
DefaultOf(type, multiple) ==
  LET d == CASE type = "string" -> Str("dflt")
             [] type = "number" -> Num(3000)
             [] OTHER -> Bool(TRUE)
  IN  IF multiple THEN Arr(<<d>>) ELSE d

\* the shapes of one option: type, multiple, negatable (booleans only),
\* required, with a default
OptionShapes ==
  {sh \in [type : {"string", "number", "boolean"}, m : BOOLEAN, g : BOOLEAN,
           r : BOOLEAN, d : BOOLEAN] : sh.g => sh.type = "boolean"}

\* one leaf with one option "opt" (-o) of every shape; the environment
\* variable of the option is set or not where the option has a default
OneOptionScenarios ==
  {[defs |-> <<Leaf("cli", <<>>,
                    <<[Opt("opt", sh.type) EXCEPT
                         !.short = "o", !.multiple = sh.m, !.negatable = sh.g,
                         !.required = sh.r, !.env = "OPT",
                         !.default = IF sh.d THEN DefaultOf(sh.type, sh.m)
                                     ELSE Undefined]>>,
                    <<>>)>>,
    tokens |-> Texts \cup {"--opt", "-o"}
                 \cup (IF sh.type = "boolean" THEN {"--no-opt"} ELSE {}),
    max |-> MaxLeafArgv,
    envs |-> {<<>>} \cup (IF sh.d THEN {<<<<"OPT", "8080">>>>} ELSE {})] :
     sh \in OptionShapes}

ArgShapes(name) ==
  {Arg(name, type, optional, variadic) :
     type \in {"string", "number", "boolean"}, optional \in BOOLEAN,
     variadic \in BOOLEAN}

ArgLists ==
  {<<>>} \cup {<<a>> : a \in ArgShapes("first")}
         \cup {<<a, b>> : a \in ArgShapes("first"), b \in ArgShapes("second")}

\* one leaf with positionals of every shape, a boolean and a number option
PositionalScenarios ==
  {[defs |-> <<Leaf("cli", args,
                    <<Opt("foo", "boolean"), [Opt("bar", "number") EXCEPT !.short = "b"]>>,
                    <<>>)>>,
    tokens |-> Texts \cup {"--foo", "--bar"},
    max |-> MaxLeafArgv,
    envs |-> {<<>>}] : args \in ArgLists}

Verbose == [Opt("verbose", "boolean") EXCEPT !.long = "verbose", !.short = "v"]
Force == [Opt("force", "boolean") EXCEPT !.long = "force", !.short = "f"]
Debug == [Opt("debug", "boolean") EXCEPT !.long = "debug"]
Service == [Opt("service", "string") EXCEPT !.long = "service", !.short = "s"]
TailOpt == [Opt("tail", "number") EXCEPT !.long = "tail", !.short = "n"]
Level == [Opt("level", "string") EXCEPT !.default = Str("info")]
Config == [Opt("config", "string") EXCEPT !.required = TRUE]

TreeScenarios ==
  { \* cli [--verbose] deploy [--force] [name] | status
    [defs |-> <<Parent("cli", <<Verbose>>, <<2, 3>>),
                Leaf("deploy", <<Arg("name", "string", TRUE, FALSE)>>,
                     <<Force>>, <<Verbose>>),
                Leaf("status", <<>>, <<>>, <<>>)>>,
     tokens |-> {"deploy", "status", "--verbose", "-v", "--force", "x"},
     max |-> MaxArgv, envs |-> {<<>>}],
    \* root service logs: two levels of inherited options
    [defs |-> <<Parent("root", <<Debug>>, <<2>>),
                Parent("service", <<Debug, Service>>, <<3>>),
                Leaf("logs", <<>>, <<TailOpt>>, <<Debug, Service>>)>>,
     tokens |-> {"service", "logs", "--debug", "--service", "--tail", "7", "x"},
     max |-> MaxArgv, envs |-> {<<>>}],
    \* an option with a default, inherited by one leaf and redeclared by another
    [defs |-> <<Parent("root", <<Level>>, <<2, 3>>),
                Leaf("show", <<>>, <<>>, <<Level>>),
                Leaf("list", <<>>, <<[Level EXCEPT !.default = Undefined]>>, <<>>)>>,
     tokens |-> {"show", "list", "--level", "x", "07"},
     max |-> MaxArgv, envs |-> {<<>>}],
    \* a boolean declared below the root
    [defs |-> <<Parent("root", <<>>, <<2>>),
                Parent("service", <<Debug>>, <<3>>),
                Leaf("logs", <<>>, <<>>, <<Debug>>)>>,
     tokens |-> {"service", "logs", "--debug", "--no-debug"},
     max |-> MaxArgv, envs |-> {<<>>}],
    \* a required option inherited from the root
    [defs |-> <<Parent("root", <<Config>>, <<2>>),
                Leaf("show", <<>>, <<>>, <<Config>>)>>,
     tokens |-> {"show", "--config", "x"},
     max |-> MaxArgv, envs |-> {<<>>}],
    \* the child's own options under a root that declares none
    [defs |-> <<Parent("root", <<>>, <<2>>),
                Leaf("add", <<Arg("first", "string", FALSE, FALSE),
                              Arg("second", "string", TRUE, FALSE)>>,
                     <<Opt("loud", "boolean"),
                       [Opt("tag", "string") EXCEPT !.multiple = TRUE]>>, <<>>)>>,
     tokens |-> {"add", "--loud", "--tag", "7", "x"},
     max |-> MaxArgv, envs |-> {<<>>}],
    \* an option with a default declared by the root and by the parent below it
    [defs |-> <<Parent("root", <<Level>>, <<2>>),
                Parent("service", <<Level>>, <<3>>),
                Leaf("logs", <<>>, <<>>, <<Level>>)>>,
     tokens |-> {"service", "logs", "--level", "x"},
     max |-> MaxArgv + 1, envs |-> {<<>>}],
    \* a leaf whose positional, own option and inherited option can all fail
    [defs |-> <<Parent("root", <<>>, <<2>>),
                Leaf("show", <<Arg("first", "string", FALSE, FALSE)>>,
                     <<Opt("opt", "number")>>, <<Config>>)>>,
     tokens |-> {"show", "--config", "--opt", "x"},
     max |-> MaxArgv, envs |-> {<<>>}] }

\* a parent defined with a handler of its own, and a parent of three leaves
RoutingScenarios ==
  { [defs |-> <<[Parent("root", <<>>, <<2>>) EXCEPT !.handler = TRUE],
                Leaf("add", <<Arg("first", "string", TRUE, FALSE)>>, <<>>, <<>>)>>,
     tokens |-> {"add", "x", "--loud"},
     max |-> MaxArgv, envs |-> {<<>>}],
    [defs |-> <<Parent("root", <<>>, <<2, 3, 4>>),
                Leaf("add", <<>>, <<>>, <<>>),
                Leaf("list", <<>>, <<>>, <<>>),
                Leaf("remove", <<>>, <<>>, <<>>)>>,
     tokens |-> {"addd", "list", "zz"},
     max |-> MaxArgv, envs |-> {<<>>}] }

\* one option whose key, long and short name may be reserved ones
NamedOptions ==
  {[Opt(key, "boolean") EXCEPT !.long = long, !.short = short] :
     key \in {"opt", "help", "version"}, long \in {"", "help", "verbose"},
     short \in {"", "h", "V", "v"}}

\* definitions a constructor may refuse: reserved names among the own or the
\* inherited options of a leaf or the options of a parent, a key both own and
\* inherited, a parent of no subcommand
ConstructionScenarios ==
  {[defs |-> ds, tokens |-> {}, max |-> MaxLeafArgv, envs |-> {<<>>}] :
     ds \in {<<Leaf("cli", <<>>, <<o>>, <<>>)>> : o \in NamedOptions}
        \cup {<<Leaf("cli", <<>>, <<Verbose>>, <<o>>)>> : o \in NamedOptions}
        \cup {<<Parent("root", <<o>>, <<2>>), Leaf("add", <<>>, <<>>, <<>>)>> :
                o \in NamedOptions}
        \cup {<<Leaf("cli", <<>>, <<Opt("opt", "string"), Verbose>>, <<o>>)>> :
                o \in {Opt("opt", "boolean"), Opt("verbose", "boolean"), Debug}}
        \cup {<<Leaf("cli", <<>>, <<Opt("help", "boolean")>>, <<Opt("help", "boolean")>>)>>,
              <<Parent("root", <<>>, <<>>)>>,
              <<Parent("root", <<Opt("version", "boolean")>>, <<>>)>>}}

\* the validator of the definitions that declare one: true ("") for "x" and
\* for 7, a message for every other value
validator(v) == IF v \in {Str("x"), Num(7)} THEN "" ELSE "not accepted"

\* a leaf whose positional and options declare choices and validators
ConstraintScenarios ==
  { [defs |-> <<Leaf("cli",
                     <<[Arg("first", "string", TRUE, FALSE) EXCEPT
                          !.choices = <<Str("x"), Str("true")>>]>>,
                     <<[Opt("level", "string") EXCEPT !.choices = <<Str("x")>>],
                       [Opt("tail", "number") EXCEPT !.validate = TRUE]>>,
                     <<>>)>>,
     tokens |-> {"x", "7", "8080", "--level", "--tail"},
     max |-> MaxLeafArgv, envs |-> {<<>>}] }

Scenarios ==
  OneOptionScenarios \cup PositionalScenarios \cup TreeScenarios
    \cup RoutingScenarios \cup ConstructionScenarios \cup ConstraintScenarios

Argvs(tokens, max) ==
  UNION {{[i \in 1..k |-> Str(f[i])] : f \in [1..k -> tokens]} : k \in 0..max}

(***************************************************************************)
(* The state of one invocation.                                            *)
(***************************************************************************)
VARIABLES
  definitions,      \* the definitions the commands are constructed from
  tree,             \* the constructed command tree, <<>> when a constructor threw
  argv0,            \* the argv given to the root: the caller's array
  env,              \* process.env
  first,            \* the argv as the caller made it, and how the first run ended
  pc,               \* "run": a call of Command.run is pending; "done"; "failed":
                    \* a constructor threw
  self,             \* the node whose run is pending or ended the invocation
  argv,             \* the argv of the pending call
  inheritedOptions, \* the inheritedOptions of the pending call
  result,           \* what the invocation came to: a handler call or a throw
  trace,            \* the calls of Command.run so far: <<node, argv, inheritedOptions>>
  suggest,          \* a call of findSuggestions: its arguments, and what it returned
  distance,         \* a call of levenshteinDistance: its arguments, and what it returned
  written,          \* what run() wrote: the version, a help text, completions
  promise,          \* what Command.run returned, and the state of the promise of
                    \* an async handler
  invoked           \* the nodes whose handler this run has called, in order

vars ==
  <<definitions, tree, argv0, env, first, pc, self, argv, inheritedOptions, result,
    trace, suggest, distance, written, promise, invoked>>

NoResult == [kind |-> "none", args |-> <<>>, options |-> <<>>, err |-> NoError]

Thrown(err) == [kind |-> "error", args |-> <<>>, options |-> <<>>, err |-> err]

Handled(args, options) ==
  [kind |-> "handler", args |-> args, options |-> options, err |-> NoError]

\* no call of findSuggestions
NoCall ==
  [input |-> <<>>, candidates |-> <<>>, maxDistance |-> Undefined, returned |-> <<>>,
   called |-> FALSE]

\* Command.run has not returned and no handler has made a promise.  returned
\* is "" before the return, then "undefined", "promise" (the promise of the
\* handler) or "thrown"; settled is "" without a promise, then "pending",
\* "fulfilled" or "rejected"
NoPromise == [returned |-> "", settled |-> ""]

\* nothing written; what is written is a word and the node whose help it is
Nothing == [what |-> "", node |-> 0]

\* no call of levenshteinDistance
NoDistance == [a |-> <<>>, b |-> <<>>, returned |-> 0, called |-> FALSE]

\* the definitions whose constructor throws
Failing(ds) == {i \in 1..Len(ds) : ~Command(ds[i]).ok}

\* the state after the commands of a scenario are constructed: a tree and an
\* argv to run it with, or the throw of the constructor that failed
Init ==
  /\ definitions \in {sc.defs : sc \in Scenarios}
  /\ \E sc \in Scenarios :
       /\ sc.defs = definitions
       /\ IF Failing(definitions) = {}
          THEN /\ tree = [i \in 1..Len(definitions) |-> Command(definitions[i]).cmd]
               /\ argv0 \in Argvs(sc.tokens, sc.max)
               /\ env \in sc.envs
               /\ pc = "run"
               /\ result = NoResult
          ELSE /\ tree = <<>>
               /\ argv0 = <<>>
               /\ env = <<>>
               /\ pc = "failed"
               /\ result = Thrown(constructorThrows(
                                    definitions[CHOOSE i \in Failing(definitions) :
                                           \A j \in Failing(definitions) : j <= i]))
  /\ first = [ran |-> FALSE, argv |-> argv0, result |-> NoResult]
  /\ self = 1
  /\ argv = argv0
  /\ inheritedOptions = <<>>
  /\ trace = <<>>
  /\ suggest = NoCall
  /\ distance = NoDistance
  /\ written = Nothing
  /\ promise = NoPromise
  /\ invoked = <<>>

Stop(err) == [err |-> err, next |-> 0, argv |-> <<>>, inherited |-> <<>>]

\* runParent reporting a missing subcommand without the names of the children
parentRouteNoNames(cmd, parsed, parentOpts, inherited, subcommandName) ==
  IF parentOpts.err # NoError THEN Stop(parentOpts.err)
  ELSE IF \/ subcommandName \in {Undefined, Str(""), Num(0)}
          \/ subcommandName.t = "string" /\ Lex(subcommandName).flag
  THEN Stop(Throw("MissingSubcommandError", cmd.name, 0))
  ELSE IF subcommandName.t # "string"
  THEN Stop(Throw("TypeError", String(subcommandName), 0))
  ELSE IF getSubcommand(tree, cmd, subcommandName) = 0
  THEN Stop(ThrowSubcommand("UnknownSubcommandError", subcommandName.s,
                            getSubcommandNames(tree, cmd)))
  ELSE [err |-> NoError,
        next |-> getSubcommand(tree, cmd, subcommandName),
        argv |-> reconstructArgv(Tail(parsed.pos), parsed, cmd.options),
        inherited |-> Spread(inherited, definedEntries(parentOpts.values))]

\* runParent after its own options are extracted: the subcommand lookup
parentRoute(cmd, parsed, parentOpts, inherited, subcommandName) ==
  IF parentOpts.err # NoError THEN Stop(parentOpts.err)
  ELSE IF \/ subcommandName \in {Undefined, Str(""), Num(0)}
          \/ subcommandName.t = "string" /\ Lex(subcommandName).flag
  THEN Stop(ThrowSubcommand("MissingSubcommandError", cmd.name,
                            getSubcommandNames(tree, cmd)))
  ELSE IF subcommandName.t # "string"
  THEN Stop(Throw("TypeError", String(subcommandName), 0))
  ELSE IF getSubcommand(tree, cmd, subcommandName) = 0
  THEN Stop(ThrowSubcommand("UnknownSubcommandError", subcommandName.s,
                            getSubcommandNames(tree, cmd)))
  ELSE [err |-> NoError,
        next |-> getSubcommand(tree, cmd, subcommandName),
        argv |-> reconstructArgv(Tail(parsed.pos), parsed, cmd.options),
        inherited |-> Spread(inherited, definedEntries(parentOpts.values))]

parentParsed(cmd, parsed, inherited, me) ==
  parentRoute(cmd, parsed, extractOptionsFromDefs(parsed, cmd.options, me), inherited,
              IF Len(parsed.pos) > 0 THEN parsed.pos[1] ELSE Undefined)

\* what runParent comes to: a throw, or the call of the subcommand's run
parentStep(cmd, args, inherited, me) ==
  parentParsed(cmd, parseArgvWithOptions(args, cmd.options), inherited, me)

\* runLeaf merging the leaf's view of its inherited options over the ancestors'
leafDeliverLeafFirst(cmd, values, ownOptions, inheritedFromArgv, inherited) ==
  IF values.err # NoError THEN Thrown(values.err)
  ELSE IF ownOptions.err # NoError THEN Thrown(ownOptions.err)
  ELSE IF inheritedFromArgv.err # NoError THEN Thrown(inheritedFromArgv.err)
  ELSE IF ~cmd.handler THEN Thrown(Throw("Error", cmd.name, 0))
  ELSE Handled(values.values,
               Spread(Spread(inherited, inheritedFromArgv.values), ownOptions.values))

\* runLeaf after the three extractions
leafDeliver(cmd, values, ownOptions, inheritedFromArgv, inherited) ==
  IF values.err # NoError THEN Thrown(values.err)
  ELSE IF ownOptions.err # NoError THEN Thrown(ownOptions.err)
  ELSE IF inheritedFromArgv.err # NoError THEN Thrown(inheritedFromArgv.err)
  ELSE IF ~cmd.handler THEN Thrown(Throw("Error", cmd.name, 0))
  ELSE Handled(values.values,
               Spread(Spread(inheritedFromArgv.values, inherited), ownOptions.values))

\* runLeaf extracting its own options before its arguments
leafParsedOptionsFirst(cmd, parsed, inherited, me) ==
  IF extractOptionsFromDefs(parsed, cmd.options, me).err # NoError
  THEN Thrown(extractOptionsFromDefs(parsed, cmd.options, me).err)
  ELSE leafDeliver(cmd, extractArgs(cmd.args, parsed, me),
                   extractOptionsFromDefs(parsed, cmd.options, me),
                   extractOptionsFromDefs(parsed, cmd.inherits, me), inherited)

\* runLeaf: the extractions in the order of its statements
leafParsed(cmd, parsed, inherited, me) ==
  leafDeliver(cmd, extractArgs(cmd.args, parsed, me),
              extractOptionsFromDefs(parsed, cmd.options, me),
              extractOptionsFromDefs(parsed, cmd.inherits, me), inherited)

\* what runLeaf comes to: a throw, or the handler's arguments
leafStep(cmd, args, inherited, me) ==
  leafParsed(cmd, parseArgvWithOptions(args, cmd.inherits \o cmd.options), inherited, me)

\* the throw or the call that ends runParent
throwOrCall(step) ==
  IF step.err # NoError
  THEN /\ pc' = "done"
       /\ result' = Thrown(step.err)
       /\ promise' = [promise EXCEPT !.returned = "thrown"]
       /\ UNCHANGED <<self, argv, inheritedOptions, invoked>>
  ELSE /\ pc' = "run"
       /\ self' = step.next
       /\ argv' = step.argv
       /\ inheritedOptions' = step.inherited
       /\ UNCHANGED <<result, promise, invoked>>

\* a runLeaf that calls the handler without returning what it returns
leafReturnsNothing(cmd, outcome) ==
  IF outcome.kind # "handler" THEN [returned |-> "thrown", settled |-> ""]
  ELSE IF cmd.async THEN [returned |-> "undefined", settled |-> "pending"]
  ELSE [returned |-> "undefined", settled |-> ""]

\* return this.handler(args, options): an async handler returns its promise,
\* and every runParent on the way returns what its subcommand's run returns
leafReturns(cmd, outcome) ==
  IF outcome.kind # "handler" THEN [returned |-> "thrown", settled |-> ""]
  ELSE IF cmd.async THEN [returned |-> "promise", settled |-> "pending"]
  ELSE [returned |-> "undefined", settled |-> ""]

\* a runLeaf that calls the handler before it extracts the arguments
handlerCallsFirst(outcome, node) == <<node>>

\* this.handler(args, options), the last statement of runLeaf: the handler is
\* called when nothing before it threw
handlerCalls(outcome, node) == IF outcome.kind = "handler" THEN <<node>> ELSE <<>>

\* a run that takes the first token off the array it was given
argvShifted(args) == IF Len(args) > 0 THEN Tail(args) ELSE args

\* the array given to run, after the run: mri reads it by index and
\* parsed._.slice(1) copies, so it is as it was
argvAfterRun(args) == args

\* the caller's array after a call of run: the root was given it, the
\* subcommands are given the arrays reconstructArgv builds
callerArgv == IF Len(trace) = 0 THEN argvAfterRun(argv0) ELSE argv0

\* Command.run on a parent command
runParent ==
  /\ pc = "run"
  /\ isParent(tree[self])
  /\ throwOrCall(parentStep(tree[self], argv, inheritedOptions, self))
  /\ trace' = Append(trace, <<self, argv, inheritedOptions>>)
  /\ argv0' = callerArgv
  /\ UNCHANGED <<definitions, tree, env, first, suggest, distance, written>>

\* Command.run on a leaf command
runLeaf ==
  /\ pc = "run"
  /\ ~isParent(tree[self])
  /\ pc' = "done"
  /\ result' = leafStep(tree[self], argv, inheritedOptions, self)
  /\ trace' = Append(trace, <<self, argv, inheritedOptions>>)
  /\ argv0' = callerArgv
  /\ promise' = leafReturns(tree[self], result')
  /\ invoked' = invoked \o handlerCalls(result', self)
  /\ UNCHANGED <<definitions, tree, env, first, self, argv, inheritedOptions, suggest,
                 distance, written>>

\* the caller runs the same root with the same array a second time
runAgain ==
  /\ pc = "done"
  /\ ~first.ran
  /\ first' = [first EXCEPT !.ran = TRUE, !.result = result]
  /\ pc' = "run"
  /\ self' = 1
  /\ argv' = argv0
  /\ inheritedOptions' = <<>>
  /\ result' = NoResult
  /\ trace' = <<>>
  /\ promise' = NoPromise
  /\ invoked' = <<>>
  /\ UNCHANGED <<definitions, tree, argv0, env, suggest, distance, written>>

Next == runParent \/ runLeaf \/ runAgain

Spec == Init /\ [][Next]_vars

(***************************************************************************)
(* The suggestion engine called by itself, on inputs and candidates made   *)
(* of a few words that differ in case, in one letter and in length.        *)
(***************************************************************************)
\* the longest list of candidates
MaxCandidates == 4

Inputs ==
  {<<"a">>, <<"a", "b">>, <<"a", "b", "d">>, <<"a", "b", "a", "b", "a", "b", "a", "b">>}

CandidateWords ==
  {<<"a", "b">>, <<"A", "b">>, <<"A", "B">>, <<"a", "b", "d">>, <<"a", "b", "a", "b">>}

CandidateLists ==
  UNION {[1..k -> CandidateWords] : k \in 0..MaxCandidates}

SuggestInit ==
  /\ suggest \in [input : Inputs, candidates : CandidateLists,
                   maxDistance : {Undefined, Num(-1), Num(0), Num(2)},
                   returned : {<<>>}, called : {FALSE}]
  /\ definitions = <<>>
  /\ tree = <<>>
  /\ argv0 = <<>>
  /\ env = <<>>
  /\ first = [ran |-> FALSE, argv |-> <<>>, result |-> NoResult]
  /\ pc = "suggest"
  /\ self = 1
  /\ argv = <<>>
  /\ inheritedOptions = <<>>
  /\ result = NoResult
  /\ trace = <<>>
  /\ distance = NoDistance
  /\ written = Nothing
  /\ promise = NoPromise
  /\ invoked = <<>>

\* findSuggestions(input, candidates, maxDistance)
callFindSuggestions ==
  /\ pc = "suggest"
  /\ ~suggest.called
  /\ suggest' = [suggest EXCEPT
                    !.called = TRUE,
                    !.returned = findSuggestions(suggest.input, suggest.candidates,
                                                 suggest.maxDistance)]
  /\ UNCHANGED <<definitions, tree, argv0, env, first, pc, self, argv,
                 inheritedOptions, result, trace, distance, written, promise,
                 invoked>>

SuggestNext == callFindSuggestions

SuggestSpec == SuggestInit /\ [][SuggestNext]_vars

(***************************************************************************)
(* levenshteinDistance called by itself on every two strings of a, A and b *)
(* up to a length.                                                         *)
(***************************************************************************)
\* the longest string measured
MaxWord == 3

Words(chars) == UNION {[1..k -> chars] : k \in 0..MaxWord}

DistanceInit ==
  /\ distance \in [a : Words({"a", "A", "b"}), b : Words({"a", "A", "b"}),
                    returned : {0}, called : {FALSE}]
  /\ suggest = NoCall
  /\ definitions = <<>>
  /\ tree = <<>>
  /\ argv0 = <<>>
  /\ env = <<>>
  /\ first = [ran |-> FALSE, argv |-> <<>>, result |-> NoResult]
  /\ pc = "distance"
  /\ self = 1
  /\ argv = <<>>
  /\ inheritedOptions = <<>>
  /\ result = NoResult
  /\ trace = <<>>
  /\ written = Nothing
  /\ promise = NoPromise
  /\ invoked = <<>>

\* levenshteinDistance(a, b)
callLevenshteinDistance ==
  /\ pc = "distance"
  /\ ~distance.called
  /\ distance' = [distance EXCEPT
                     !.called = TRUE,
                     !.returned = levenshteinDistance(distance.a, distance.b)]
  /\ UNCHANGED <<definitions, tree, argv0, env, first, pc, self, argv,
                 inheritedOptions, result, trace, suggest, written, promise,
                 invoked>>

DistanceNext == callLevenshteinDistance

DistanceSpec == DistanceInit /\ [][DistanceNext]_vars

(***************************************************************************)
(* Command.run with async handlers: the promise of the handler is          *)
(* fulfilled or rejected some time after the handler was called.           *)
(***************************************************************************)
\* cli [--verbose] deploy [--force] [name] | status, deploy's handler async
AsyncTrees ==
  {<<Parent("cli", <<Verbose>>, <<2, 3>>),
     [Leaf("deploy", <<Arg("name", "string", TRUE, FALSE)>>, <<Force>>, <<Verbose>>)
        EXCEPT !.async = TRUE],
     Leaf("status", <<>>, <<>>, <<>>)>>,
   <<[Leaf("cli", <<Arg("first", "number", FALSE, FALSE)>>, <<>>, <<>>)
        EXCEPT !.async = TRUE]>>}

AsyncInit ==
  /\ definitions \in AsyncTrees
  /\ tree = [i \in 1..Len(definitions) |-> Command(definitions[i]).cmd]
  /\ argv0 \in Argvs({"deploy", "status", "--verbose", "--force", "x", "7"}, MaxArgv)
  /\ env = <<>>
  /\ first = [ran |-> FALSE, argv |-> argv0, result |-> NoResult]
  /\ pc = "run"
  /\ self = 1
  /\ argv = argv0
  /\ inheritedOptions = <<>>
  /\ result = NoResult
  /\ trace = <<>>
  /\ suggest = NoCall
  /\ distance = NoDistance
  /\ written = Nothing
  /\ promise = NoPromise
  /\ invoked = <<>>

\* the async handler completes
handlerFulfils ==
  /\ promise.settled = "pending"
  /\ promise' = [promise EXCEPT !.settled = "fulfilled"]
  /\ UNCHANGED <<definitions, tree, argv0, env, first, pc, self, argv,
                 inheritedOptions, result, trace, suggest, distance, written, invoked>>

\* the async handler throws
handlerRejects ==
  /\ promise.settled = "pending"
  /\ promise' = [promise EXCEPT !.settled = "rejected"]
  /\ UNCHANGED <<definitions, tree, argv0, env, first, pc, self, argv,
                 inheritedOptions, result, trace, suggest, distance, written, invoked>>

AsyncNext == runParent \/ runLeaf \/ handlerFulfils \/ handlerRejects

AsyncSpec == AsyncInit /\ [][AsyncNext]_vars

(***************************************************************************)
(* The entry point run(cmd, argv): the built-in flags and the completions  *)
(* subcommand, then cmd.run(argv).                                         *)
(***************************************************************************)
\* root service logs, the root with a version or without
EntryTrees ==
  {<<[Parent("root", <<Debug>>, <<2>>) EXCEPT !.version = v],
     Parent("service", <<Debug, Service>>, <<3, 4>>),
     Leaf("logs", <<>>, <<TailOpt>>, <<Debug, Service>>),
     Leaf("service", <<>>, <<>>, <<>>)>> : v \in {"", "1.0.0"}}

EntryTokens ==
  {"service", "logs", "--debug", "--help", "-h", "--version", "-V", "completions",
   "bash"}

EntryInit ==
  /\ definitions \in EntryTrees
  /\ tree = [i \in 1..Len(definitions) |-> Command(definitions[i]).cmd]
  /\ argv0 \in Argvs(EntryTokens, MaxArgv)
  /\ env = <<>>
  /\ first = [ran |-> FALSE, argv |-> argv0, result |-> NoResult]
  /\ pc = "entry"
  /\ self = 1
  /\ argv = argv0
  /\ inheritedOptions = <<>>
  /\ result = NoResult
  /\ trace = <<>>
  /\ suggest = NoCall
  /\ distance = NoDistance
  /\ written = Nothing
  /\ promise = NoPromise
  /\ invoked = <<>>

\* run(cmd, argv) up to its return or its call of cmd.run(argv)
run ==
  /\ pc = "entry"
  /\ pc' = IF builtin(argv0) = "" THEN "run" ELSE "returned"
  /\ written' =
       CASE builtin(argv0) = "completions" ->
              [what |-> handleCompletions(Tail(argv0)), node |-> 1]
         [] builtin(argv0) = "version" ->
              [what |-> IF tree[1].version # "" THEN "version" ELSE "no version",
               node |-> 1]
         [] builtin(argv0) = "help" ->
              [what |-> "help", node |-> findHelpTarget(tree, 1, argv0)]
         [] OTHER -> Nothing
  /\ UNCHANGED <<definitions, tree, argv0, env, first, self, argv, inheritedOptions,
                 result, trace, suggest, distance, promise,
                 invoked>>

\* run(cmd, argv) after cmd.run(argv): it returns, or handleError throws the
\* error again, no error class having the code isCliError looks for
runSettles ==
  /\ pc = "done"
  /\ pc' = "returned"
  /\ UNCHANGED <<definitions, tree, argv0, env, first, self, argv, inheritedOptions,
                 result, trace, suggest, distance, written, promise,
                 invoked>>

EntryNext == run \/ runParent \/ runLeaf \/ runSettles

EntrySpec == EntryInit /\ [][EntryNext]_vars

(***************************************************************************)
(* What an ended invocation is measured against.  The call that ended it   *)
(* is the last of trace; when that call ran a leaf, LeafParse is what the  *)
(* tokenizer gave the leaf.                                                *)
(***************************************************************************)
LeafEnded == pc = "done" /\ ~isParent(tree[self])

LeafArgv == trace[Len(trace)][2]

PassedDown == trace[Len(trace)][3]

LeafParse == parseArgvWithOptions(LeafArgv, tree[self].inherits \o tree[self].options)

\* one leaf declaring the one option "opt"
OneOption == Len(tree) = 1 /\ Len(tree[1].options) = 1 /\ tree[1].options[1].key = "opt"

TheOption == tree[1].options[1]

\* the value the text of a token or of an environment variable stands for
Typed(type, text) ==
  CASE type = "number" -> TextToNumber(text)
    [] type = "boolean" -> Bool(text = "true")
    [] OTHER -> Str(text)

\* C1: precedence law.  For a single-valued string or number option with an
\* environment fallback and a default: given on the command line, the handler
\* receives the token's typed value; with no token and the variable set, the
\* variable's typed value; with neither, the default.
C1_PrecedenceLaw ==
  (/\ pc = "done" /\ OneOption
   /\ TheOption.env # "" /\ TheOption.default # Undefined
   /\ ~TheOption.multiple /\ TheOption.type \in {"string", "number"}
   /\ argv0 \in {<<>>, <<Str("--opt"), Str("7")>>})
  => /\ result.kind = "handler"
     /\ Get(result.options, "opt") =
          IF argv0 # <<>> THEN Typed(TheOption.type, "7")
          ELSE IF HasKey(env, TheOption.env)
          THEN Typed(TheOption.type, Get(env, TheOption.env))
          ELSE TheOption.default

\* the leaf's two resolutions of what the tokenizer gave it
OwnAtLeaf == extractOptionsFromDefs(LeafParse, tree[self].options, self).values

InheritedAtLeaf == extractOptionsFromDefs(LeafParse, tree[self].inherits, self).values

MergedKeys == Range(Keys(OwnAtLeaf)) \cup Range(Keys(PassedDown)) \cup Range(Keys(InheritedAtLeaf))

\* options holds, key by key, own over passed over atLeaf
MergedInOrder(options, own, passed, atLeaf) ==
  /\ Range(Keys(options)) = Range(Keys(own)) \cup Range(Keys(passed)) \cup Range(Keys(atLeaf))
  /\ \A key \in Range(Keys(options)) :
       Get(options, key) =
         IF HasKey(own, key) THEN Get(own, key)
         ELSE IF HasKey(passed, key) THEN Get(passed, key)
         ELSE Get(atLeaf, key)

\* C2 (as amended): in the handler's option map a key of the leaf's own options
\* holds the own value; any other key the ancestors passed down holds the
\* passed-down value; only the remaining keys hold the value the leaf resolved
\* for its declared inherited options.
C2_MergeOrder ==
  (LeafEnded /\ result.kind = "handler")
  => MergedInOrder(result.options, OwnAtLeaf, PassedDown, InheritedAtLeaf)

\* C2 as claimed: own values override the leaf-resolved inherited values,
\* which override the values passed down by ancestors.
C2_AsClaimed ==
  (LeafEnded /\ result.kind = "handler")
  => \A key \in MergedKeys :
       Get(result.options, key) =
         IF HasKey(OwnAtLeaf, key) THEN Get(OwnAtLeaf, key)
         ELSE IF HasKey(InheritedAtLeaf, key) THEN Get(InheritedAtLeaf, key)
         ELSE Get(PassedDown, key)

\* a handler ran with a key both passed down and resolved at the leaf, the two
\* values differing
C2_Witness ==
  /\ LeafEnded /\ result.kind = "handler"
  /\ \E key \in MergedKeys :
       /\ HasKey(PassedDown, key) /\ HasKey(InheritedAtLeaf, key)
       /\ Get(PassedDown, key) # Get(InheritedAtLeaf, key)
       /\ Get(result.options, key) = Get(PassedDown, key)

RECURSIVE NonFlagTokens(_)
\* the tokens of args that are not flags, in order
NonFlagTokens(args) ==
  IF Len(args) = 0 THEN <<>>
  ELSE IF Lex(args[1]).flag THEN NonFlagTokens(Tail(args))
  ELSE <<args[1]>> \o NonFlagTokens(Tail(args))

\* the child of node named by a token, 0 when there is none
ChildNamed(node, token) ==
  IF \E c \in Range(tree[node].subcommands) : Str(tree[c].name) = token
  THEN CHOOSE c \in Range(tree[node].subcommands) : Str(tree[c].name) = token
  ELSE 0

RECURSIVE Route(_, _)
\* the walk of the tree along the names that lead the tokens
Route(node, tokens) ==
  IF Len(tokens) > 0 /\ ChildNamed(node, tokens[1]) # 0
  THEN Route(ChildNamed(node, tokens[1]), Tail(tokens))
  ELSE [node |-> node, rest |-> tokens]

\* every option some node of the tree declares, own or inherited
DeclaredOptions == UNION {Range(tree[i].options) \cup Range(tree[i].inherits) : i \in 1..Len(tree)}

\* every flag of args is the plain long or short form of a declared boolean
OnlyBooleanFlags(args) ==
  \A i \in 1..Len(args) :
    Lex(args[i]).flag =>
      /\ ~Lex(args[i]).neg
      /\ \E d \in DeclaredOptions :
           d.type = "boolean" /\ Lex(args[i]).name \in {d.long, d.short}

\* C3: routing walk.  When the non-flag tokens of the command line begin with
\* the names of a path from the root to a leaf (the flags being valueless
\* booleans the tree declares), the invocation ends in that leaf, no routing
\* error is raised on the way, and the leaf's positional input is the non-flag
\* tokens that follow the path.
C3_RoutingWalk ==
  (/\ pc = "done"
   /\ isParent(tree[1])
   /\ OnlyBooleanFlags(argv0)
   /\ ~isParent(tree[Route(1, NonFlagTokens(argv0)).node]))
  => /\ self = Route(1, NonFlagTokens(argv0)).node
     /\ LeafParse.pos = Route(1, NonFlagTokens(argv0)).rest

\* the tokens that supply option d on the command line
Supplied(d) ==
  IF d.type = "boolean" THEN <<Str("--" \o d.long)>>
  ELSE <<Str("--" \o d.long), Str(IF d.type = "number" THEN "7" ELSE "x")>>

\* args is the names of a path from the root to leaf, with the tokens
\* supplying d put before, between or after the names
SuppliedOnRoute(args, leaf, d) ==
  \E i \in 0..(Len(args) - Len(Supplied(d))) :
    /\ SubSeq(args, i + 1, i + Len(Supplied(d))) = Supplied(d)
    /\ Route(1, SubSeq(args, 1, i) \o SubSeq(args, i + Len(Supplied(d)) + 1, Len(args)))
         = [node |-> leaf, rest |-> <<>>]

\* C4: inherited options.  When the command line is the names of a path to a
\* leaf plus, anywhere among them, a value for an option the leaf inherits, the
\* leaf's handler runs and its option map holds that value in the option's type.
C4_InheritedAnywhere ==
  pc = "done" =>
    \A leaf \in 1..Len(tree) : \A d \in Range(tree[leaf].inherits) :
      (~isParent(tree[leaf]) /\ SuppliedOnRoute(argv0, leaf, d))
      => /\ self = leaf
         /\ result.kind = "handler"
         /\ Get(result.options, d.key) =
              IF d.type = "boolean" THEN Bool(TRUE) ELSE Typed(d.type, Supplied(d)[2].s)

\* the leaf's positional specs and the tokenizer's positional list
Specs == tree[self].args

Positionals == LeafParse.pos

\* spec i finds no token in pos where it needs one
MissingAt(specs, pos, i) ==
  /\ ~specs[i].optional
  /\ Len(pos) < i

\* spec i finds in pos a token that is no number
InvalidAt(specs, pos, i) ==
  /\ specs[i].type = "number"
  /\ \E j \in i..Len(pos) :
       /\ specs[i].variadic \/ j = i
       /\ isNaN(Number(pos[j]))

\* the first spec that fails on pos, 0 when none does
FirstFailing(specs, pos) ==
  IF \E i \in 1..Len(specs) : MissingAt(specs, pos, i) \/ InvalidAt(specs, pos, i)
  THEN CHOOSE i \in 1..Len(specs) :
         /\ MissingAt(specs, pos, i) \/ InvalidAt(specs, pos, i)
         /\ \A j \in 1..(i - 1) : ~(MissingAt(specs, pos, j) \/ InvalidAt(specs, pos, j))
  ELSE 0

\* the typed value of one present token
TypedToken(type, token) ==
  CASE type = "number" -> Number(token)
    [] type = "boolean" -> Bool(token = Str("true"))
    [] OTHER -> token

\* the value spec i is to deliver from pos
Delivered(specs, pos, i) ==
  IF specs[i].variadic
  THEN Arr([j \in 1..(IF Len(pos) < i THEN 0 ELSE Len(pos) - i + 1) |->
              TypedToken(specs[i].type, pos[i + j - 1])])
  ELSE IF Len(pos) < i THEN Undefined
  ELSE TypedToken(specs[i].type, pos[i])

\* what resolving specs over pos at node me comes to, f the first failing spec
ResolvedAs(specs, pos, me, f) ==
  IF f # 0
  THEN result = Thrown(Throw(IF MissingAt(specs, pos, f) THEN "MissingArgumentError"
                             ELSE "InvalidArgumentError",
                             specs[f].name, me))
  ELSE /\ result.err.error \notin {"MissingArgumentError", "InvalidArgumentError"}
       /\ result.kind = "handler" =>
            /\ Len(result.args) = Len(specs)
            /\ \A i \in 1..Len(specs) : result.args[i] = Delivered(specs, pos, i)

PositionalsResolved(specs, pos, me) == ResolvedAs(specs, pos, me, FirstFailing(specs, pos))

\* C5: positional resolution at a leaf, over the positional list the tokenizer
\* gave it.  The first spec, in order, that lacks a needed token raises
\* MissingArgumentError, or that meets a non-numeric token for a number raises
\* InvalidArgumentError; otherwise no argument error is raised and a handler
\* that runs receives one value per spec: the i-th token typed (number by
\* numeric parse, boolean by equality to "true", string unchanged), undefined
\* for a missing optional, and for a variadic the sequence of all remaining
\* tokens typed the same way.
C5_PositionalResolution ==
  LeafEnded => PositionalsResolved(Specs, Positionals, self)

\* a handler received a boolean read from a token other than "true" and a
\* variadic number
C5_Witness ==
  /\ LeafEnded
  /\ result.kind = "handler"
  /\ Len(Specs) = 2 /\ Len(Positionals) = 2
  /\ Specs[1].type = "boolean" /\ result.args[1] = Bool(FALSE)
  /\ Specs[2].type = "number" /\ Specs[2].variadic
  /\ result.args[2] = Arr(<<Num(7)>>)

RECURSIVE PositionalTokens(_, _)
\* the tokens of args that are neither a flag nor the value of a declared
\* option that takes one
PositionalTokens(args, defs) ==
  IF Len(args) = 0 THEN <<>>
  ELSE IF ~Lex(args[1]).flag
  THEN <<args[1]>> \o PositionalTokens(Tail(args), defs)
  ELSE IF /\ \E d \in Range(defs) :
               d.type # "boolean" /\ Lex(args[1]).name \in {d.long, d.short}
          /\ Len(args) > 1 /\ ~Lex(args[2]).flag
  THEN PositionalTokens(Tail(Tail(args)), defs)
  ELSE PositionalTokens(Tail(args), defs)

\* every flag of args is the plain form of an option defs declares
OnlyDeclaredFlags(args, defs) ==
  \A i \in 1..Len(args) :
    Lex(args[i]).flag =>
      /\ ~Lex(args[i]).neg
      /\ \E d \in Range(defs) : Lex(args[i]).name \in {d.long, d.short}

\* C6: interleaving.  At a leaf without a variadic spec, given a command line
\* whose flags are all declared and which holds exactly one positional token
\* per spec, the outcome is that of the positional tokens alone, wherever the
\* option tokens stand: a number spec's non-numeric token raises
\* InvalidArgumentError, otherwise the handler runs with the tokens typed, one
\* per spec, in order.
C6_Interleaving ==
  (/\ LeafEnded /\ Len(tree) = 1
   /\ \A i \in 1..Len(Specs) : ~Specs[i].variadic
   /\ OnlyDeclaredFlags(argv0, tree[1].options)
   /\ Len(PositionalTokens(argv0, tree[1].options)) = Len(Specs))
  => LET tokens == PositionalTokens(argv0, tree[1].options)
         bad == {i \in 1..Len(Specs) :
                   Specs[i].type = "number" /\ isNaN(Number(tokens[i]))}
     IN  IF bad # {}
         THEN /\ result.kind = "error"
              /\ result.err.error = "InvalidArgumentError"
         ELSE /\ result.err.error \notin {"MissingArgumentError", "InvalidArgumentError"}
              /\ result.kind = "handler" =>
                   result.args = [i \in 1..Len(Specs) |->
                                    TypedToken(Specs[i].type, tokens[i])]

\* the occurrences collected in a reported value: none, the one value, or
\* the values in the order given
OccurrencesIn(value) ==
  IF value = Undefined THEN <<>>
  ELSE IF value.t = "array" THEN value.a
  ELSE <<value>>

\* the occurrences the tokenizer collected for the leaf under a long name
Occurrences(long) == OccurrencesIn(Get(LeafParse.o, long))

\* value is the sequence of the occurrences, numbers parsed
SequenceOf(value, occurrences, type) ==
  /\ value.t = "array"
  /\ value.a = [i \in 1..Len(occurrences) |->
                  IF type = "number" THEN Number(occurrences[i]) ELSE occurrences[i]]

\* C7: a multiple option is delivered as a sequence.  Whenever a leaf's handler
\* runs, each of its own options declared multiple holds a sequence: the
\* occurrences the tokenizer collected, in order (numbers parsed), one
\* occurrence making a one-element sequence and none the empty sequence,
\* with or without a declared default.
C7_MultipleIsSequence ==
  (LeafEnded /\ result.kind = "handler")
  => \A d \in Range(tree[self].options) :
       d.multiple => SequenceOf(Get(result.options, d.key), Occurrences(d.long), d.type)

\* a handler received the one occurrence of a multiple option as a
\* one-element sequence
C7_Witness ==
  /\ LeafEnded /\ OneOption /\ TheOption.multiple /\ TheOption.type = "string"
  /\ argv0 = <<Str("--opt"), Str("x")>>
  /\ result.kind = "handler"
  /\ Get(result.options, "opt") = Arr(<<Str("x")>>)

\* the flags of args that name option d, in order: TRUE for the plain form,
\* FALSE for the no- form
RECURSIVE FlagForms(_, _)
FlagForms(args, d) ==
  IF Len(args) = 0 THEN <<>>
  ELSE IF Lex(args[1]).flag /\ Lex(args[1]).name \in {d.long, d.short}
  THEN <<~Lex(args[1]).neg>> \o FlagForms(Tail(args), d)
  ELSE FlagForms(Tail(args), d)

\* C8: negatable boolean.  For a leaf's negatable single-valued boolean given
\* only as flags (no value tokens): a no- form anywhere on the command line
\* delivers false, whatever plain forms and default there are; otherwise a
\* plain form delivers true; otherwise the default is delivered.
C8_Negatable ==
  (/\ LeafEnded /\ OneOption
   /\ TheOption.type = "boolean" /\ TheOption.negatable /\ ~TheOption.multiple
   /\ \A i \in 1..Len(argv0) : Lex(argv0[i]).flag)
  => /\ result.kind = "handler"
     /\ Get(result.options, "opt") =
          IF FALSE \in Range(FlagForms(argv0, TheOption)) THEN Bool(FALSE)
          ELSE IF TRUE \in Range(FlagForms(argv0, TheOption)) THEN Bool(TRUE)
          ELSE TheOption.default

\* what the tokenizer gave call k of the trace
ParseOf(k) ==
  parseArgvWithOptions(trace[k][2],
                       tree[trace[k][1]].inherits \o tree[trace[k][1]].options)

\* the options call k resolves, own and inherited
ResolvedBy(k) == Range(tree[trace[k][1]].options) \cup Range(tree[trace[k][1]].inherits)

\* option d is left undefined by call k: no value from the command line (a
\* multiple option always has its sequence) and no default
LeftUndefined(d, k) ==
  /\ ~d.multiple
  /\ Get(ParseOf(k).o, d.long) = Undefined
  /\ ~(d.type = "boolean" /\ d.negatable /\ Get(ParseOf(k).o, "no-" \o d.long) = Bool(TRUE))
  /\ d.default = Undefined

\* C9: required options.  A required option left undefined by a call of run
\* ends the invocation in that call with an error and no handler runs; it is
\* MissingOptionError naming the option when the node resolves nothing else.
\* MissingOptionError is raised for no other option: never for one whose
\* default is declared.
C9_Required ==
  pc = "done" =>
    /\ \A k \in 1..Len(trace) : \A d \in ResolvedBy(k) :
         (d.required /\ LeftUndefined(d, k))
         => /\ k = Len(trace)
            /\ result.kind = "error"
            /\ (Len(tree[self].args) = 0 /\ Cardinality(ResolvedBy(k)) = 1)
               => result = Thrown(Throw("MissingOptionError", d.long, self))
    /\ result.err.error = "MissingOptionError"
       => \E d \in ResolvedBy(Len(trace)) :
            /\ d.long = result.err.name
            /\ d.required /\ LeftUndefined(d, Len(trace))

\* a required option without a default was not given and MissingOptionError
\* ended the invocation
C9_Witness ==
  /\ pc = "done" /\ OneOption
  /\ TheOption.required /\ LeftUndefined(TheOption, 1)
  /\ result = Thrown(Throw("MissingOptionError", "opt", 1))

ParentEnded == pc = "done" /\ isParent(tree[self])

\* the parent that ended the invocation was defined without a handler
NoHandlerDefined == ~definitions[self].handler

AllFlags(args) == \A i \in 1..Len(args) : Lex(args[i]).flag

\* the names of the children in the definition of node n, in order
ChildNames(n) ==
  [i \in 1..Len(definitions[n].subcommands) |->
     definitions[definitions[n].subcommands[i]].name]

\* what resolving the own options of the parent that ended the invocation threw
OwnOptionsError ==
  extractOptionsFromDefs(parseArgvWithOptions(argv, tree[self].options),
                         tree[self].options, self).err

MissingSubcommandWith(err, name, names) ==
  /\ err.error = "MissingSubcommandError"
  /\ err.name = name
  /\ err.available = names

\* C11 as stated: a parent without a handler, run on an argv with no non-flag
\* token, raises MissingSubcommandError carrying the names of its children.
C11_AsClaimed ==
  (ParentEnded /\ NoHandlerDefined /\ AllFlags(argv))
  => /\ result.kind = "error"
     /\ MissingSubcommandWith(result.err, definitions[self].name, ChildNames(self))

\* C11: a parent without a handler, run on an argv with no non-flag token,
\* ends the invocation with an error and no handler runs: the error of its own
\* options when resolving them fails, and otherwise MissingSubcommandError
\* carrying the parent's name and the names of its children in declaration
\* order.
C11_MissingSubcommand ==
  (ParentEnded /\ NoHandlerDefined /\ AllFlags(argv))
  => /\ result.kind = "error"
     /\ IF OwnOptionsError # NoError THEN result.err = OwnOptionsError
        ELSE MissingSubcommandWith(result.err, definitions[self].name, ChildNames(self))

\* a nested parent given only a flag reports its child
C11_Witness ==
  /\ ParentEnded /\ NoHandlerDefined /\ AllFlags(argv)
  /\ self # 1 /\ Len(argv) > 0
  /\ OwnOptionsError = NoError
  /\ result.err.error = "MissingSubcommandError"
  /\ result.err.available = <<"logs">>

\* the node that ended the invocation was defined with a handler and children
HybridDefined == definitions[self].handler /\ Len(definitions[self].subcommands) > 0

\* C12: a hybrid node (defined with both a handler and children), run on an
\* argv with no token naming a child, runs its own handler with the options
\* resolved as for a leaf; it does not raise MissingSubcommandError.
C12_HybridFallback ==
  (pc = "done" /\ HybridDefined /\ AllFlags(argv))
  => /\ result.kind = "handler"
     /\ result = leafStep([tree[self] EXCEPT !.handler = TRUE, !.subcommands = <<>>],
                          argv, inheritedOptions, self)

\* the characters of the names the suggestion engine is asked about
Spell ==
  [add |-> <<"a", "d", "d">>, addd |-> <<"a", "d", "d", "d">>,
   list |-> <<"l", "i", "s", "t">>, remove |-> <<"r", "e", "m", "o", "v", "e">>,
   zz |-> <<"z", "z">>]

\* the names findSuggestions gives for a name among candidate names
SuggestedNames(name, names) ==
  LET words == findSuggestions(Spell[name], [i \in 1..Len(names) |-> Spell[names[i]]],
                               Undefined)
  IN  [i \in 1..Len(words) |-> CHOOSE n \in DOMAIN Spell : Spell[n] = words[i]]

\* the parent that ended the invocation was given a first token that is no
\* flag and names none of its children
UnmatchedToken ==
  /\ ParentEnded /\ Len(argv) > 0 /\ ~Lex(argv[1]).flag
  /\ \A i \in 1..Len(ChildNames(self)) : ChildNames(self)[i] # argv[1].s

\* C13: at a parent, a subcommand token matching no child raises
\* UnknownSubcommandError whose suggestions are those of the suggestion engine
\* for the token over the names of the children (children add, list, remove
\* and argv <<"addd">> give <<"add">>), and which reports the names of the
\* children as available.
C13_Suggestions ==
  (/\ UnmatchedToken /\ argv[1].s \in DOMAIN Spell
   /\ \A i \in 1..Len(ChildNames(self)) : ChildNames(self)[i] \in DOMAIN Spell)
  => /\ result.kind = "error"
     /\ result.err.error = "UnknownSubcommandError"
     /\ result.err.suggestions = SuggestedNames(argv[1].s, ChildNames(self))
     /\ result.err.available = ChildNames(self)

\* the flag token is declared by the table: the long or short form of an
\* option, or the no- form of a negatable boolean
DeclaredFlag(token, table) ==
  \E i \in 1..Len(table) :
    IF Lex(token).neg
    THEN table[i].type = "boolean" /\ table[i].negatable /\ Lex(token).name = table[i].long
    ELSE Lex(token).name \in {table[i].long, table[i].short}

\* the flag tokens of args the table does not declare
UndeclaredFlags(args, table) ==
  {i \in 1..Len(args) : Lex(args[i]).flag /\ ~DeclaredFlag(args[i], table)}

\* C14: a leaf given a flag token that its own and inherited option tables do
\* not declare raises UnknownOptionError.
C14_UnknownOption ==
  (LeafEnded /\ UndeclaredFlags(LeafArgv, tree[self].inherits \o tree[self].options) # {})
  => /\ result.kind = "error"
     /\ result.err.error = "UnknownOptionError"

\* the value obeys the constraints declared by d, an option or a positional
\* spec: it is one of the choices, and the validator returns true for it
Obeys(value, d) ==
  /\ d.choices # <<>> => value \in Range(d.choices)
  /\ d.validate => validator(value) = ""

\* C15: choices and validators.  A handler never receives a defined value of
\* an option or of a positional that is outside the declared choices or that
\* the declared validator does not return true for (InvalidChoiceError or
\* ValidationError is raised instead).
C15_Constraints ==
  (LeafEnded /\ result.kind = "handler")
  => /\ \A i \in 1..Len(tree[self].options) :
          LET value == Get(result.options, tree[self].options[i].key)
          IN  value.t \notin {"undefined", "array"} => Obeys(value, tree[self].options[i])
     /\ \A i \in 1..Len(tree[self].args) :
          (i <= Len(result.args) /\ result.args[i].t \notin {"undefined", "array"})
            => Obeys(result.args[i], tree[self].args[i])

RuntimeErrors ==
  {"MissingArgumentError", "InvalidArgumentError", "MissingOptionError",
   "InvalidOptionError", "MissingSubcommandError", "UnknownSubcommandError",
   "UnknownOptionError"}

\* C16: every runtime error raised during routing or resolution carries the
\* node at which it was raised, so the help shown for it is the help of that
\* node, not of the root the run began at.
C16_ErrorSource ==
  (pc = "done" /\ result.kind = "error" /\ result.err.error \in RuntimeErrors)
  => /\ result.err.source = self
     /\ helpSource(result.err, 1) = self

(***************************************************************************)
(* Construction.  The properties of a definition are stated here on the    *)
(* definition as it is written, apart from the constructor's checks.       *)
(***************************************************************************)
\* the option names a built-in flag: its long name (the explicit one, else the
\* key) is help or version, or its short alias is h or V
Reserved(o) ==
  \/ (IF o.long # "" THEN o.long ELSE o.key) \in {"help", "version"}
  \/ o.short \in {"h", "V"}

HasReserved(d) ==
  \E i \in 1..Len(d.options \o d.inherits) : Reserved((d.options \o d.inherits)[i])

\* every variadic positional spec is the last one
VariadicLast(d) == \A i \in 1..Len(d.args) : d.args[i].variadic => i = Len(d.args)

NoSharedKey(d) ==
  \A i \in 1..Len(d.options) : \A j \in 1..Len(d.inherits) :
    d.options[i].key # d.inherits[j].key

HasChildren(d) == d.parent => Len(d.subcommands) > 0

WellFormed(d) == VariadicLast(d) /\ NoSharedKey(d) /\ HasChildren(d)

SomeDefinition(P(_)) == \E i \in 1..Len(definitions) : P(definitions[i])

\* C17 as stated: a definition with an option of a reserved name fails to
\* construct with ReservedOptionError.
C17_AsClaimed ==
  SomeDefinition(HasReserved)
  => pc = "failed" /\ result.kind = "error" /\ result.err.error = "ReservedOptionError"

\* C17: a definition with an own or inherited option of a reserved name fails
\* to construct, with ReservedOptionError when the definition is otherwise
\* well formed; the error is never raised by a run, and no constructed node
\* has an option of a reserved name.
C17_Reserved ==
  /\ SomeDefinition(HasReserved)
       => /\ pc = "failed" /\ result.kind = "error" /\ trace = <<>>
          /\ (\A i \in 1..Len(definitions) : WellFormed(definitions[i]))
               => result.err.error = "ReservedOptionError"
  /\ pc # "failed"
       => /\ result.err.error # "ReservedOptionError"
          /\ \A i \in 1..Len(tree) : ~HasReserved(tree[i])

\* an inherited option with the short alias V is refused
C17_Witness ==
  /\ pc = "failed"
  /\ result.err = Throw("ReservedOptionError", "-V", 0)
  /\ Len(definitions[1].inherits) = 1
  /\ definitions[1].inherits[1].short = "V"
  /\ definitions[1].inherits[1].long = "verbose"

\* C18: every constructed node has its variadic spec, if any, last and alone,
\* no key both own and inherited, and a child when defined with a child list;
\* a definition breaking one of these is refused with an Error thrown by the
\* constructor, before any run.
C18_Structure ==
  /\ pc # "failed"
       => \A i \in 1..Len(tree) :
            /\ VariadicLast(tree[i]) /\ NoSharedKey(tree[i])
            /\ definitions[i].parent => isParent(tree[i])
  /\ SomeDefinition(LAMBDA d : ~WellFormed(d))
       => /\ pc = "failed" /\ trace = <<>>
          /\ result.kind = "error" /\ result.err.error = "Error"

\* two variadic specs are refused
C18_Witness ==
  /\ pc = "failed"
  /\ result.err = Throw("Error", "variadic", 0)
  /\ Len(definitions[1].args) = 2
  /\ definitions[1].args[1].variadic /\ definitions[1].args[2].variadic

\* the second run of the same root on the same array has ended
SecondEnded == pc = "done" /\ first.ran

LowerOf(str) ==
  [i \in 1..Len(str) |->
     CASE str[i] = "A" -> "a" [] str[i] = "B" -> "b" [] str[i] = "D" -> "d"
       [] OTHER -> str[i]]

Least(S) == CHOOSE x \in S : \A y \in S : x <= y

\* the least number of insertions, deletions and substitutions of single
\* characters that turn a into b
EditDistance(a, b) ==
  LET D[i \in 0..Len(a), j \in 0..Len(b)] ==
        IF i = 0 THEN j
        ELSE IF j = 0 THEN i
        ELSE Least({D[i - 1, j] + 1, D[i, j - 1] + 1,
                    D[i - 1, j - 1] + (IF a[i] = b[j] THEN 0 ELSE 1)})
  IN  D[Len(a), Len(b)]

\* the given maxDistance, or min(3, floor(0.4 x length) + 1)
Threshold ==
  IF suggest.maxDistance # Undefined THEN suggest.maxDistance.n
  ELSE Least({3, (2 * Len(suggest.input)) \div 5 + 1})

Returned == Range(suggest.returned)

\* the candidates that are the input in another letter case
CaseVariants ==
  {c \in Range(suggest.candidates) :
     LowerOf(c) = LowerOf(suggest.input) /\ c # suggest.input}

Asked == suggest.called /\ Len(suggest.input) >= 2

NoExactMatch == suggest.input \notin Returned

WithinThreshold ==
  \A c \in Returned : EditDistance(LowerOf(suggest.input), LowerOf(c)) <= Threshold

\* C20 as stated: for an input of two or more characters findSuggestions
\* never returns the input itself, returns only candidates within the
\* threshold, and returns every candidate that is the input in another case.
C20_AsClaimed ==
  Asked => NoExactMatch /\ WithinThreshold /\ CaseVariants \subseteq Returned

\* C20: for an input of two or more characters findSuggestions returns only
\* candidates of the list, never the input itself, and only candidates whose
\* case-insensitive edit distance is within the threshold; with a threshold
\* of 0 or more a candidate that is the input in another case is returned,
\* unless the three places are taken by candidates that are too.
C20_Suggestions ==
  Asked
  => /\ Returned \subseteq Range(suggest.candidates)
     /\ NoExactMatch
     /\ WithinThreshold
     /\ Threshold >= 0
          => \/ CaseVariants \subseteq Returned
             \/ Len(suggest.returned) = 3 /\ Returned \subseteq CaseVariants

\* the input among the candidates, one in another case that is returned
\* first, one further off than the threshold
C20_Witness ==
  /\ Asked
  /\ suggest.input \in Range(suggest.candidates)
  /\ Len(suggest.returned) >= 2
  /\ suggest.returned[1] \in CaseVariants
  /\ suggest.returned[2] \notin CaseVariants
  /\ \E c \in Range(suggest.candidates) :
       EditDistance(LowerOf(suggest.input), LowerOf(c)) > Threshold

\* s comes before t in the order of sequences of numbers, entry by entry
LexLess(s, t) ==
  \E k \in 1..(Len(t)) :
    /\ \A i \in 1..(k - 1) : i <= Len(s) /\ s[i] = t[i]
    /\ k > Len(s) \/ s[k] < t[k]

IsCapital(ch) == ch \in {"A", "B", "D"}

\* the place in the alphabet of the letter of a character
LetterOf(ch) == CHOOSE k \in 1..Len(LowerCase) : LowerCase[k] = LowerOf(<<ch>>)[1]

\* the place in the alphabet of the letter of each character
Letters(str) == [i \in 1..Len(str) |-> LetterOf(str[i])]

\* 0 for a lower-case character, 1 for a capital
Cases(str) == [i \in 1..Len(str) |-> IF IsCapital(str[i]) THEN 1 ELSE 0]

\* the code units of the characters: the capitals come before the lower case
CodeUnits(str) ==
  [i \in 1..Len(str) |->
     IF IsCapital(str[i]) THEN LetterOf(str[i]) ELSE 32 + LetterOf(str[i])]

\* by the first pair of keys, then by the second
ByKeys(k1, l1, k2, l2) == LexLess(k1, l1) \/ (k1 = l1 /\ LexLess(k2, l2))

\* dictionary order: by the letters, then lower case before capitals
DictionaryLess(a, b) == ByKeys(Letters(a), Letters(b), Cases(a), Cases(b))

\* the order of the strings by their code units
CodeUnitLess(a, b) == LexLess(CodeUnits(a), CodeUnits(b))

\* the distance of a candidate from the input: the distance the engine
\* computes, which C22 shows to be the edit distance of the lower-cased strings
DistanceTo(c) == levenshteinDistance(suggest.input, c)

\* the places of the candidate list that qualify
Qualifying ==
  {i \in 1..Len(suggest.candidates) :
     DistanceTo(suggest.candidates[i]) <= Threshold
       /\ suggest.candidates[i] # suggest.input}

\* the places Q of the candidates c, at the distances d, in order of
\* distance, then of Less, then of place, cut to the first three
Before(Less(_, _), c, d, j, i) ==
  \/ d[j] < d[i]
  \/ d[j] = d[i] /\ Less(c[j], c[i])
  \/ d[j] = d[i] /\ c[j] = c[i] /\ j < i

\* the candidates at the places Q, each at its place in the order
Placed(Q, c, place) ==
  [k \in 1..Least({3, Cardinality(Q)}) |-> c[CHOOSE i \in Q : place[i] = k]]

Ordered(Less(_, _), Q, c, d) ==
  CHOOSE r \in {Placed(Q, c, place) :
                  place \in {[i \in Q |->
                               Cardinality({j \in Q : Before(Less, c, d, j, i)}) + 1]}} :
    TRUE

Distances == [i \in 1..Len(suggest.candidates) |-> DistanceTo(suggest.candidates[i])]

\* the places of the candidate list that qualify
QualifyingAt(d) ==
  {i \in 1..Len(suggest.candidates) :
     d[i] <= Threshold /\ suggest.candidates[i] # suggest.input}

\* the qualifying candidates in order, cut to the first three
FirstThree(Less(_, _), d) ==
  CHOOSE r \in {Ordered(Less, Q, suggest.candidates, d) : Q \in {QualifyingAt(d)}} : TRUE

\* C21 as stated, lexical order being the order of the strings by their
\* characters' codes: findSuggestions returns the qualifying candidates by
\* distance, then in lexical order, cut to the first three, and nothing for
\* an input of fewer than two characters.
C21_AsClaimed ==
  suggest.called
  => \A d \in {Distances} :
       suggest.returned =
         IF Len(suggest.input) < 2 THEN <<>> ELSE FirstThree(CodeUnitLess, d)

\* C21: findSuggestions returns the qualifying candidates (within the
\* threshold, not the input itself) by distance ascending, then in dictionary
\* order (by letters, lower case before capitals), cut to the first three;
\* for an input of fewer than two characters it returns the empty list.
C21_SortedFirstThree ==
  suggest.called
  => \A d \in {Distances} :
       suggest.returned =
         IF Len(suggest.input) < 2 THEN <<>> ELSE FirstThree(DictionaryLess, d)

\* four candidates qualify, at two distances, two of them alike but for case
C21_Witness ==
  /\ Asked
  /\ Cardinality(Qualifying) = 4
  /\ Len(suggest.returned) = 3
  /\ DistanceTo(suggest.returned[1]) < DistanceTo(suggest.returned[3])
  /\ LowerOf(suggest.returned[1]) = LowerOf(suggest.returned[2])
  /\ suggest.returned[1] # suggest.returned[2]

(***************************************************************************)
(* The edit distance as the least number of edits: the strings reached     *)
(* from one string by edits of a single character, one after another.      *)
(***************************************************************************)
\* str without its character at place i
Without(str, i) == SubSeq(str, 1, i - 1) \o SubSeq(str, i + 1, Len(str))

\* t is s with one character inserted, deleted or substituted
OneEdit(s, t) ==
  \/ Len(s) = Len(t) /\ Cardinality({i \in 1..Len(s) : s[i] # t[i]}) = 1
  \/ Len(t) = Len(s) + 1 /\ \E i \in 1..Len(t) : Without(t, i) = s
  \/ Len(s) = Len(t) + 1 /\ \E i \in 1..Len(s) : Without(s, i) = t

RECURSIVE WithinEdits(_, _)
\* the lower-case strings reached from s by n edits or fewer
WithinEdits(s, n) ==
  IF n = 0 THEN {s}
  ELSE LET near == WithinEdits(s, n - 1)
       IN  near \cup {t \in Words({"a", "b"}) : \E u \in near : OneEdit(u, t)}

\* MaxWord substitutions and insertions are enough between any two of the strings
MinEdits(s, t) == Least({n \in 0..MaxWord : t \in WithinEdits(s, n)})

\* C22: levenshteinDistance(a, b) is the least number of insertions,
\* deletions and substitutions of single characters that turn lower-cased a
\* into lower-cased b: 0 when they differ only in case, the length of the
\* other string when one is empty.
C22_Levenshtein ==
  distance.called
  => /\ distance.returned = MinEdits(LowerOf(distance.a), LowerOf(distance.b))
     /\ LowerOf(distance.a) = LowerOf(distance.b) => distance.returned = 0
     /\ distance.a = <<>> => distance.returned = Len(distance.b)
     /\ distance.b = <<>> => distance.returned = Len(distance.a)

\* strings of different lengths and cases, two edits apart
C22_Witness ==
  /\ distance.called
  /\ distance.returned = 2
  /\ Len(distance.a) = MaxWord /\ Len(distance.b) = 2
  /\ \E i \in 1..Len(distance.a) : distance.a[i] = "A"
  /\ \E i \in 1..Len(distance.b) : distance.b[i] = "a"

(***************************************************************************)
(* The entry point.                                                        *)
(***************************************************************************)
\* argv holds one of the built-in flags
BuiltinFlagGiven ==
  \E i \in 1..Len(argv0) :
    argv0[i] \in {Str("--help"), Str("-h"), Str("--version"), Str("-V")}

\* no handler was called and no error raised: no call of Command.run was made
NothingRan == trace = <<>> /\ result = NoResult

\* C23 as stated: when argv holds a built-in flag no handler is invoked, no
\* routing or resolution error is raised, and help, the version or the
\* no-version message is written.
C23_AsClaimed ==
  (pc = "returned" /\ BuiltinFlagGiven)
  => NothingRan /\ written.what \in {"help", "version", "no version"}

\* C23: when argv holds a built-in flag, run() calls no Command.run: no
\* handler is invoked and no routing or resolution error is raised.  Unless
\* the first token is completions (then the completions or their usage line
\* are written), the version is written when --version or -V is given (the
\* no-version message when the root has none), and otherwise a help text.
C23_ShortCircuit ==
  BuiltinFlagGiven
  => /\ pc \in {"entry", "returned"}
     /\ NothingRan
     /\ pc = "returned"
          => IF argv0[1] = Str("completions")
             THEN written.what \in {"completions", "usage"}
             ELSE IF \E i \in 1..Len(argv0) : argv0[i] \in {Str("--version"), Str("-V")}
             THEN /\ written.what = (IF definitions[1].version = "" THEN "no version"
                                      ELSE "version")
                  /\ written.node = 1
             ELSE written.what = "help"

\* the short help flag after two subcommand names
C23_Witness ==
  /\ pc = "returned"
  /\ argv0 = <<Str("service"), Str("logs"), Str("-h")>>
  /\ written = [what |-> "help", node |-> 3]
  /\ NothingRan

(***************************************************************************)
(* Async handlers.                                                         *)
(***************************************************************************)
\* what the caller awaiting the return of Command.run sees: a promise is
\* awaited to its end, undefined is there at once, a throw is a rejection
Awaited ==
  CASE promise.returned = "promise" -> promise.settled
    [] promise.returned = "undefined" -> "fulfilled"
    [] promise.returned = "thrown" -> "rejected"
    [] OTHER -> "pending"

AsyncHandlerCalled == pc = "done" /\ result.kind = "handler" /\ tree[self].async

\* C24: when the handler of the selected node is async, what Command.run
\* returns is pending while the handler is, fulfilled once the handler has
\* fulfilled and rejected once it has failed; success is never signalled
\* before the handler finishes.
C24_AsyncHandler ==
  AsyncHandlerCalled
  => /\ promise.settled \in {"pending", "fulfilled", "rejected"}
     /\ Awaited = promise.settled

\* a handler reached through a parent has failed, and so has the run
C24_Witness ==
  /\ AsyncHandlerCalled
  /\ Len(trace) = 2
  /\ promise.settled = "rejected"
  /\ Awaited = "rejected"

RECURSIVE Deepest(_, _)
\* the node reached from node by following the tokens for as long as each
\* names a child
Deepest(node, tokens) ==
  IF Len(tokens) = 0 \/ ChildNamed(node, tokens[1]) = 0 THEN node
  ELSE Deepest(ChildNamed(node, tokens[1]), Tail(tokens))

\* C25: given a help flag, run() prints the help of the deepest node named by
\* the successive non-flag tokens of argv, wherever the flag tokens stand.
C25_HelpTarget ==
  (pc = "returned" /\ written.what = "help")
  => written.node = Deepest(1, NonFlagTokens(argv0))

(***************************************************************************)
(* Forwarding.  The root P was given the name of its leaf C and then a     *)
(* tail that uses no option of P.                                          *)
(***************************************************************************)
TheChild == ChildNamed(1, argv0[1])

UsesNoOptionOf(args, table) ==
  \A i \in 1..Len(args) :
    Lex(args[i]).flag
      => \A k \in 1..Len(table) : Lex(args[i]).name \notin {table[k].long, table[k].short}

ThroughParent ==
  /\ pc = "done" /\ Len(tree) > 1 /\ Len(argv0) > 0
  /\ TheChild # 0 /\ ~isParent(tree[TheChild])
  /\ UsesNoOptionOf(Tail(argv0), tree[1].options)
  /\ \A k \in 1..Len(tree[1].options) : ~tree[1].options[k].required

\* what the handler of C receives from C.run(t), or the error of C.run(t)
Direct == leafStep(tree[TheChild], Tail(argv0), <<>>, TheChild)

\* C26: forwarding through a parent is transparent.  P.run(<<C.name>> \o t)
\* ends as C.run(t) does: the same error, or the handler of C with the same
\* positional values and the same value for every option C declares or
\* inherits.
C26_Transparent ==
  ThroughParent
  => /\ self = TheChild
     /\ result.kind = Direct.kind
     /\ result.err = Direct.err
     /\ result.args = Direct.args
     /\ \A k \in 1..Len(tree[TheChild].inherits \o tree[TheChild].options) :
          LET key == (tree[TheChild].inherits \o tree[TheChild].options)[k].key
          IN  Get(result.options, key) = Get(Direct.options, key)

(***************************************************************************)
(* Defaults on the way down.  The root and the parent below it declare the *)
(* same option with a default, the leaf inherits it, and the command line  *)
(* gives the option once, with a value.                                    *)
(***************************************************************************)
DeclaresDefault(node, key) ==
  \E k \in 1..Len(tree[node].options) :
    /\ tree[node].options[k].key = key
    /\ tree[node].options[k].default # Undefined

InheritsKey(node, key) ==
  \E k \in 1..Len(tree[node].inherits) : tree[node].inherits[k].key = key

FlagPlaces(key) == {i \in 1..Len(argv0) : Lex(argv0[i]).flag /\ Lex(argv0[i]).name = key}

\* the value the command line gives for --key, when it gives exactly one
ExplicitValue(key) == argv0[(CHOOSE i \in FlagPlaces(key) : TRUE) + 1]

GivenOnce(key) ==
  /\ Cardinality(FlagPlaces(key)) = 1
  /\ \A i \in FlagPlaces(key) : i < Len(argv0) /\ ~Lex(argv0[i + 1]).flag

DefaultedChain(key) ==
  /\ Len(trace) = 3 /\ trace[1][1] = 1
  /\ DeclaresDefault(trace[1][1], key) /\ DeclaresDefault(trace[2][1], key)
  /\ InheritsKey(self, key)

\* C27: an explicit option value is never replaced by a default on the way
\* down.  In a chain root, middle, leaf where root and middle declare the same
\* option with a default and the leaf inherits it, the handler of the leaf
\* receives the value the command line gave for the option.
C27_ExplicitOverDefault ==
  \A key \in {"level"} :
    (LeafEnded /\ result.kind = "handler" /\ DefaultedChain(key) /\ GivenOnce(key))
    => Get(result.options, key) = ExplicitValue(key)

(***************************************************************************)
(* The keys of the option map a handler receives.                          *)
(***************************************************************************)
TableKeys(table) == {table[k].key : k \in 1..Len(table)}

\* C28: the option map passed to the handler of a leaf has exactly the keys
\* of the own and the inherited option table of the leaf: each of them is
\* there, and no option of an ancestor the leaf does not inherit is.
C28_ExactKeys ==
  (LeafEnded /\ result.kind = "handler")
  => Range(Keys(result.options))
       = TableKeys(tree[self].options) \cup TableKeys(tree[self].inherits)

(***************************************************************************)
(* The calls of handlers in one run.                                       *)
(***************************************************************************)
RunEnded == pc = "done" /\ Len(tree) > 0

\* C29: in a run of a tree on an argv at most one handler is called, at most
\* once, and a run that ended in a routing or resolution error has called no
\* handler: the handler that is called is the one of the leaf the run ended
\* at, called with what the run resolved.
C29_OneHandler ==
  /\ Len(invoked) <= 1
  /\ RunEnded
     => /\ result.kind = "error" => invoked = <<>>
        /\ result.kind = "handler" => invoked = <<self>>

\* a run through a parent ended in an error of the leaf, whose handler was
\* not called
C29_Witness ==
  /\ RunEnded /\ Len(trace) = 2 /\ ~isParent(tree[self])
  /\ result.kind = "error" /\ invoked = <<>>

(***************************************************************************)
(* The order of the checks.  Each check is taken by itself on what the     *)
(* tokenizer gave the node: the error it would raise, NoError when it      *)
(* passes.                                                                 *)
(***************************************************************************)
ParentParse(k) == parseArgvWithOptions(trace[k][2], tree[trace[k][1]].options)

\* the own options of the parent the k-th call ran
ParentOptionCheck(k) ==
  extractOptionsFromDefs(ParentParse(k), tree[trace[k][1]].options, trace[k][1]).err

PositionalCheck == extractArgs(tree[self].args, LeafParse, self).err

OwnOptionCheck == extractOptionsFromDefs(LeafParse, tree[self].options, self).err

InheritedOptionCheck == extractOptionsFromDefs(LeafParse, tree[self].inherits, self).err

SubcommandErrors == {"MissingSubcommandError", "UnknownSubcommandError"}

\* the first of the checks that fails, NoError when none does
FirstRaised(checks) ==
  IF \E i \in 1..Len(checks) : checks[i] # NoError
  THEN checks[CHOOSE i \in 1..Len(checks) :
                /\ checks[i] # NoError
                /\ \A j \in 1..(i - 1) : checks[j] = NoError]
  ELSE NoError

\* C30: the checks run in a fixed order and the first that fails is the
\* error raised.  A parent whose own options fail raises that error, not a
\* subcommand error, and the run goes to a child only past parents whose own
\* options passed; a leaf raises the first failure among its positionals,
\* its own options and its inherited options, in that order.
C30_CheckOrder ==
  /\ RunEnded
     => \A k \in 1..(Len(trace) - 1) : ParentOptionCheck(k) = NoError
  /\ ParentEnded
     => /\ ParentOptionCheck(Len(trace)) # NoError
             => result.err = ParentOptionCheck(Len(trace))
        /\ result.err.error \in SubcommandErrors
             => ParentOptionCheck(Len(trace)) = NoError
  /\ LeafEnded
     => /\ FirstRaised(<<PositionalCheck, OwnOptionCheck, InheritedOptionCheck>>)
             # NoError
             => result.err
                  = FirstRaised(<<PositionalCheck, OwnOptionCheck, InheritedOptionCheck>>)
        /\ result.kind = "handler"
             => FirstRaised(<<PositionalCheck, OwnOptionCheck, InheritedOptionCheck>>)
                  = NoError

\* a leaf reached through a parent where the three checks all fail, with
\* three different errors
C30_Witness ==
  /\ LeafEnded /\ Len(trace) = 2
  /\ PositionalCheck # NoError /\ OwnOptionCheck # NoError
  /\ InheritedOptionCheck # NoError
  /\ OwnOptionCheck # InheritedOptionCheck
  /\ result.err = PositionalCheck

====
